---- MODULE Spec2Model ----
(***************************************************************************)
(* The dispatch server of atopile/hil (software/httpdist_server/server.py) *)
(* as a state machine: the in-memory session store, the workers table, the *)
(* environment files on disk and one action per HTTP handler.  Every       *)
(* handler is a coroutine without a suspension point between its reads and *)
(* its writes of the session store (the database client is synchronous),   *)
(* so a handler is one atomic step; the background task a handler queues   *)
(* runs as a step of its own.  The Worker and the Client plugin of         *)
(* software/hil/dist_plugin.py follow the server: each is a process whose  *)
(* requests are handled by the server's handlers.                          *)
(***************************************************************************)
EXTENDS Integers, Sequences, FiniteSets, TLC

VARIABLES
    sessions,    \* the sessions dict, in insertion order: a sequence of Session
    workers,     \* the "workers" table: worker_id -> row
    files,       \* the paths that exist under ENV_DIR
    now,         \* datetime.now(), in minutes
    background,  \* queued _worker_seen background tasks: worker_id -> count
    resp,        \* the response of the last request handled
    budget,      \* the number of requests still to be handled
    worker_plugin,  \* the Worker plugin of one worker process (dist_plugin.py)
    client_plugin,  \* the Client plugin of one client process (dist_plugin.py)
    scheduler,      \* a HeterogenousLoadScheduling object (scheduling.py)
    gen             \* a running any_ready generator (framework.py)

vars == <<sessions, workers, files, now, background, resp, budget,
          worker_plugin, client_plugin, scheduler, gen>>

\* what runs beside the server: the two pytest processes, the in-process
\* scheduler and the any_ready generator
plugins == <<worker_plugin, client_plugin, scheduler, gen>>

----------------------------------------------------------------------------
(* Bounds of the exploration *)

MaxSteps == 2
MaxTime == 1

----------------------------------------------------------------------------
(* Constants and value domains *)

WORKER_TIMEOUT == 2

None == "None"

TestStatus == {"Pending", "Running", "Finished"}
TestPhase == {"Setup", "Call", "Teardown"}
SessionState == {"Setup", "Running", "Stopped"}
WorkerAction == {"Run", "Stop"}

TEST_SESSION == "test-session"
TEST_NOTHING == "tests/test_nothing.py::test_nothing"
TEST_FAIL == "tests/test_nothing.py::test_fail"

\* the values requests are drawn from
UUIDs == {"uuid-1"}
UNKNOWN_SESSION == "no-such-session"
WorkerIds == {"w1", "w2"}
Tags == {"cellsim", "rig1"}
NodeIds == {TEST_NOTHING, TEST_FAIL}
Reports == {"r1", "r2"}
PetNames == {"rig-one"}
Contents == {"ejE=", "ejI=", "a"}

\* an optional value of a database column: NULL, or a value
Null == <<>>
Some(x) == <<x>>
IsNull(o) == o = <<>>
Val(o) == o[1]

----------------------------------------------------------------------------
(* Session and Session.Test *)

NoReports == [phase \in TestPhase |-> None]

\* assigned and hinted are history fields: the workers this Test object was
\* returned to as test_now and as test_next
NewTest(worker_requirements, nodeid) ==
    [worker_requirements |-> worker_requirements,
     nodeid |-> nodeid,
     status |-> "Pending",
     reports |-> NoReports,
     assigned |-> {},
     hinted |-> {}]

\* stop_called and teardown_accepted are history fields: whether stop_session
\* ran on the session, and the nodeids whose Teardown report was accepted
NewSession(session_id, tests) ==
    [session_id |-> session_id,
     state |-> "Setup",
     tests |-> tests,
     env |-> None,
     artifacts |-> <<>>,
     stop_called |-> FALSE,
     teardown_accepted |-> {}]

InitialSessions ==
    << NewSession(TEST_SESSION,
                  << NewTest({"cellsim"}, TEST_NOTHING),
                     NewTest({"cellsim"}, TEST_FAIL) >>) >>

\* dict operations on a sequence of records keyed by one field
SessionIds == {sessions[i].session_id : i \in 1..Len(sessions)}
SessionIndex(session_id) ==
    CHOOSE i \in 1..Len(sessions) : sessions[i].session_id = session_id
GetSession(session_id) == sessions[SessionIndex(session_id)]

TestKeys(tests) == {tests[i].nodeid : i \in 1..Len(tests)}
TestIndex(tests, nodeid) == CHOOSE i \in 1..Len(tests) : tests[i].nodeid = nodeid
GetTest(tests, nodeid) == tests[TestIndex(tests, nodeid)]
\* tests[nodeid] = test: an existing key keeps its place, a new key goes last
PutTest(tests, test) ==
    IF test.nodeid \in TestKeys(tests)
    THEN [tests EXCEPT ![TestIndex(tests, test.nodeid)] = test]
    ELSE Append(tests, test)

ArtifactKeys(artifacts) == {artifacts[i].worker_id : i \in 1..Len(artifacts)}
ArtifactIndex(artifacts, worker_id) ==
    CHOOSE i \in 1..Len(artifacts) : artifacts[i].worker_id = worker_id
PutArtifactKeepsFirst(artifacts, worker_id, content) ==
    IF worker_id \in ArtifactKeys(artifacts)
    THEN artifacts
    ELSE Append(artifacts, [worker_id |-> worker_id, content |-> content])
PutArtifact(artifacts, worker_id, content) ==
    IF worker_id \in ArtifactKeys(artifacts)
    THEN [artifacts EXCEPT ![ArtifactIndex(artifacts, worker_id)].content = content]
    ELSE Append(artifacts, [worker_id |-> worker_id, content |-> content])

\* Session.stop: the state is set before the environment file is unlinked;
\* env is not reset, and unlink of a missing file raises FileNotFoundError
Session_stop(session) == [session EXCEPT !.state = "Stopped"]
StopUnlinks(session) == session.env # None
StopRaises(session) == session.env # None /\ session.env \notin files

----------------------------------------------------------------------------
(* The workers table *)

\* get_pet_name hashes identifier.to_bytes(6), a method of int.  The server
\* passes the worker_id path parameter, a str, which has no to_bytes: the call
\* raises AttributeError and returns no name
AttributeError == "AttributeError"
get_pet_name(identifier) == AttributeError

WorkerExists(worker_id) == worker_id \in DOMAIN workers

\* _get_worker: "not_found", "unconfigured", "error" (a row without a pet
\* name, whose name get_pet_name fails to generate) or "ok"
GetWorkerResult(worker_id) ==
    IF ~WorkerExists(worker_id) THEN "not_found"
    ELSE IF IsNull(workers[worker_id].tags) THEN "unconfigured"
    ELSE IF workers[worker_id].pet_name = None
            /\ get_pet_name(worker_id) = AttributeError THEN "error"
    ELSE "ok"

\* the status code of the exception _get_worker raises
WorkerErrorCode(result) ==
    CASE result = "not_found" -> 404
      [] result = "unconfigured" -> 422
      [] OTHER -> 500

WorkerTags(worker_id) == Val(workers[worker_id].tags)

\* _get_active_workers: last_seen >= now - WORKER_TIMEOUT and tags not NULL
IsActive(row) == row.last_seen >= now - WORKER_TIMEOUT /\ ~IsNull(row.tags)
ActiveWorkers == {w \in DOMAIN workers : IsActive(workers[w])}

\* _worker_seen: an update filtered on worker_id; no row, no change
WorkerSeen(table, worker_id) ==
    IF worker_id \in DOMAIN table
    THEN [table EXCEPT ![worker_id].last_seen = now]
    ELSE table

InsertWorker(table, worker_id) ==
    [w \in DOMAIN table \cup {worker_id} |->
        IF w = worker_id
        THEN [pet_name |-> get_pet_name(worker_id), tags |-> Null, last_seen |-> now]
        ELSE table[w]]

----------------------------------------------------------------------------
(* Responses *)

Response(op, code, session_id, worker_id, body) ==
    [op |-> op, code |-> code, session_id |-> session_id,
     worker_id |-> worker_id, body |-> body]

NotFound(op, session_id, worker_id, detail) ==
    Response(op, 404, session_id, worker_id, detail)

\* one request handled; a budget of Unbounded is never used up
Unbounded == 0 - 1
Handled ==
    IF budget = Unbounded THEN budget' = budget
    ELSE budget > 0 /\ budget' = budget - 1

SetSession(session_id, session) ==
    [sessions EXCEPT ![SessionIndex(session_id)] = session]

----------------------------------------------------------------------------
(* Session handlers *)

\* GET /session
start_session(session_id) ==
    /\ Handled
    /\ session_id \notin SessionIds
    /\ sessions' = Append(sessions, NewSession(session_id, <<>>))
    /\ resp' = Response("start_session", 200, session_id, None, None)
    /\ UNCHANGED <<workers, files, now, background>>

\* POST /session/{session_id}/stop
stop_session(session_id) ==
    /\ Handled
    /\ IF session_id \notin SessionIds
       THEN /\ resp' = NotFound("stop_session", session_id, None, "Session not found")
            /\ UNCHANGED <<sessions, files>>
       ELSE LET session == GetSession(session_id) IN
            /\ sessions' = SetSession(session_id,
                   [Session_stop(session) EXCEPT !.stop_called = TRUE])
            /\ IF StopRaises(session)
               THEN /\ resp' = Response("stop_session", 500, session_id, None,
                                        "FileNotFoundError")
                    /\ UNCHANGED files
               ELSE /\ resp' = Response("stop_session", 200, session_id, None,
                                        "Stop signal sent")
                    /\ files' = IF StopUnlinks(session)
                                THEN files \ {session.env} ELSE files
    /\ UNCHANGED <<workers, now, background>>

\* ENV_DIR / session_id
EnvPath(session_id) == session_id

\* POST /session/{session_id}/env
submit_session_env(session_id) ==
    /\ Handled
    /\ IF session_id \notin SessionIds
       THEN /\ resp' = NotFound("submit_session_env", session_id, None,
                                "Session not found")
            /\ UNCHANGED <<sessions, files>>
       ELSE /\ files' = files \cup {EnvPath(session_id)}
            /\ sessions' = SetSession(session_id,
                   [GetSession(session_id) EXCEPT !.env = EnvPath(session_id)])
            /\ resp' = Response("submit_session_env", 200, session_id, None,
                                "Environment file uploaded successfully")
    /\ UNCHANGED <<workers, now, background>>

\* GET /worker/session/{session_id}/env
fetch_worker_session_env(session_id) ==
    /\ Handled
    /\ resp' =
         IF session_id \notin SessionIds
         THEN NotFound("fetch_worker_session_env", session_id, None, "Session not found")
         ELSE IF GetSession(session_id).env = None
         THEN NotFound("fetch_worker_session_env", session_id, None,
                       "Environment file not found")
         ELSE IF GetSession(session_id).env \notin files
         THEN Response("fetch_worker_session_env", 500, session_id, None,
                       "FileNotFoundError")
         ELSE Response("fetch_worker_session_env", 200, session_id, None, "env.zip")
    /\ UNCHANGED <<sessions, workers, files, now, background>>

----------------------------------------------------------------------------
(* Test submission and reports *)

TestSpecs == [nodeid : NodeIds, worker_requirements : SUBSET Tags]
\* the empty batch, one test, or TEST_FAIL followed by TEST_NOTHING
Batches == {<<>>} \cup {<<t>> : t \in TestSpecs}
                  \cup {<<t, u>> : t \in {x \in TestSpecs : x.nodeid = TEST_FAIL},
                                  u \in {x \in TestSpecs : x.nodeid = TEST_NOTHING}}

\* mutant: a test with an unmet tag contributes all of its tags
UnprocessableTagsWhole(batch, worker_tags) ==
    UNION {batch[i].worker_requirements :
              i \in {k \in 1..Len(batch) :
                        batch[k].worker_requirements \ worker_tags # {}}}

\* mutant: only the first test of the batch is looked at
UnprocessableTagsFirst(batch, worker_tags) ==
    UNION {batch[i].worker_requirements \ worker_tags : i \in 1..Len(batch) \cap {1}}

\* the tags of the batch that no active worker has
UnprocessableTags(batch, worker_tags) ==
    UNION {batch[i].worker_requirements \ worker_tags : i \in 1..Len(batch)}

\* the loop body's store: every test of the batch is written into the
\* session as a fresh Session.Test, whatever its tags
RECURSIVE StoreTests(_, _, _)
StoreTests(tests, batch, i) ==
    IF i > Len(batch) THEN tests
    ELSE StoreTests(PutTest(tests, NewTest(batch[i].worker_requirements,
                                           batch[i].nodeid)),
                    batch, i + 1)

\* what a submit_tests response carries: the batch of the request, the
\* detail of the response and the tags the detail lists
SubmitTestsBody(batch, detail, tags) ==
    [tests |-> batch, detail |-> detail, tags |-> tags]

\* POST /session/{session_id}/tests
submit_tests(session_id, batch) ==
    /\ Handled
    /\ IF session_id \notin SessionIds
       THEN /\ resp' = NotFound("submit_tests", session_id, None,
                                SubmitTestsBody(batch, "Session not found", {}))
            /\ UNCHANGED sessions
       ELSE IF ActiveWorkers = {}
       THEN /\ resp' = Response("submit_tests", 503, session_id, None,
                                SubmitTestsBody(batch, "No workers available", {}))
            /\ UNCHANGED sessions
       ELSE LET worker_tags == UNION {WorkerTags(w) : w \in ActiveWorkers}
                unprocessable_tags == UnprocessableTags(batch, worker_tags)
                session == GetSession(session_id)
            IN /\ sessions' = SetSession(session_id,
                      [session EXCEPT !.tests = StoreTests(session.tests, batch, 1)])
               /\ resp' = IF unprocessable_tags # {}
                          THEN Response("submit_tests", 503, session_id, None,
                                        SubmitTestsBody(batch, "Unprocessable tags",
                                                        unprocessable_tags))
                          ELSE Response("submit_tests", 200, session_id, None,
                                        SubmitTestsBody(batch,
                                            "Tests submitted successfully", {}))
    /\ UNCHANGED <<workers, files, now, background>>

PhaseOrder == <<"Setup", "Call", "Teardown">>

\* the phases of a test whose report is not None, in the reports dict's order
PresentPhases(test) ==
    LET present(phase) == test.reports[phase] # None
    IN SelectSeq(PhaseOrder, present)

Statuses(session) ==
    [nodeid \in TestKeys(session.tests) |->
        PresentPhases(GetTest(session.tests, nodeid))]

\* GET /session/{session_id}/tests
fetch_tests(session_id) ==
    /\ Handled
    /\ resp' =
         IF session_id \notin SessionIds
         THEN NotFound("fetch_tests", session_id, None, "Session not found")
         ELSE Response("fetch_tests", 200, session_id, None,
                       Statuses(GetSession(session_id)))
    /\ UNCHANGED <<sessions, workers, files, now, background>>

\* the report is stored, whatever the phase held before
StoreReport(test, phase, report) ==
    [test EXCEPT !.reports[phase] = report]

\* mutant: any report finishes the test
StatusAfterAnyReport(test, phase) == "Finished"

\* mutant: no report finishes the test
StatusNeverFinished(test, phase) == test.status

\* the status after a report for this phase was stored
StatusAfterReport(test, phase) ==
    IF phase = "Teardown" THEN "Finished" ELSE test.status

\* POST /worker/session/{session_id}/test
submit_test_report(session_id, nodeid, phase, report) ==
    /\ Handled
    /\ IF session_id \notin SessionIds
       THEN /\ resp' = NotFound("submit_test_report", session_id, None,
                                <<nodeid, phase, report>>)
            /\ UNCHANGED sessions
       ELSE IF nodeid \notin TestKeys(GetSession(session_id).tests)
       THEN /\ resp' = NotFound("submit_test_report", session_id, None,
                                <<nodeid, phase, report>>)
            /\ UNCHANGED sessions
       ELSE LET session == GetSession(session_id)
                test == GetTest(session.tests, nodeid)
                stored == StoreReport(test, phase, report)
                updated == [stored EXCEPT !.status = StatusAfterReport(test, phase)]
            IN /\ sessions' = SetSession(session_id,
                      [session EXCEPT
                         !.tests = PutTest(session.tests, updated),
                         !.teardown_accepted =
                             IF phase = "Teardown" THEN @ \cup {nodeid} ELSE @])
               /\ resp' = Response("submit_test_report", 200, session_id, None,
                                   <<nodeid, phase, report>>)
    /\ UNCHANGED <<workers, files, now, background>>

\* POST /session/{session_id}/test/{phase}; the response is shown with the
\* nodeid and the phase of the request
query_test_report(session_id, phase, nodeid) ==
    /\ Handled
    /\ resp' =
         IF session_id \notin SessionIds
         THEN NotFound("query_test_report", session_id, None,
                       <<nodeid, phase, "Session not found">>)
         ELSE IF nodeid \notin TestKeys(GetSession(session_id).tests)
         THEN NotFound("query_test_report", session_id, None,
                       <<nodeid, phase, "Test not found">>)
         ELSE IF GetTest(GetSession(session_id).tests, nodeid).reports[phase] = None
         THEN NotFound("query_test_report", session_id, None,
                       <<nodeid, phase, "Test report not found">>)
         ELSE Response("query_test_report", 200, session_id, None,
                       <<nodeid, phase,
                         GetTest(GetSession(session_id).tests, nodeid).reports[phase]>>)
    /\ UNCHANGED <<sessions, workers, files, now, background>>

----------------------------------------------------------------------------
(* Worker handlers *)

\* some test of the session could run on a worker with these tags
AnyTestFor(session, tags) ==
    \E i \in 1..Len(session.tests) : session.tests[i].worker_requirements \subseteq tags

\* the first Running session, in the dict's order, with a test for these tags
SessionFor(tags) ==
    LET matching == {i \in 1..Len(sessions) :
                        /\ sessions[i].state = "Running"
                        /\ AnyTestFor(sessions[i], tags)}
    IN IF matching = {} THEN None
       ELSE sessions[CHOOSE i \in matching : \A j \in matching : i <= j].session_id

\* GET /worker/{worker_id}/session
get_worker_session(worker_id) ==
    /\ Handled
    /\ IF ~WorkerExists(worker_id) /\ get_pet_name(worker_id) = AttributeError
       THEN \* the exception leaves the handler before the insert
            /\ resp' = Response("get_worker_session", 500, None, worker_id,
                                AttributeError)
            /\ UNCHANGED workers
       ELSE /\ workers' = IF WorkerExists(worker_id)
                          THEN WorkerSeen(workers, worker_id)
                          ELSE InsertWorker(workers, worker_id)
            /\ resp' =
                 IF ~WorkerExists(worker_id)
                 THEN Response("get_worker_session", 422, None, worker_id,
                               "unconfigured")
                 ELSE IF GetWorkerResult(worker_id) # "ok"
                 THEN Response("get_worker_session",
                               WorkerErrorCode(GetWorkerResult(worker_id)),
                               None, worker_id, GetWorkerResult(worker_id))
                 ELSE Response("get_worker_session", 200,
                               SessionFor(WorkerTags(worker_id)), worker_id, None)
    /\ UNCHANGED <<sessions, files, now, background>>

\* mutant: the poll sets Running before it looks at the state
PollStateAlwaysRunning(state) == "Running"

\* the state a poll leaves the session in
PollState(state) == IF state = "Setup" THEN "Running" ELSE state

\* mutant: the Stopped branch is missing
PollNeverStops(state) == FALSE

\* the poll answers Stop at once
PollStops(state) == state = "Stopped"

\* mutant: the scan does not look at the status
CompatibleAnyStatus(test, tags) == test.worker_requirements \subseteq tags

\* mutant: the scan does not look at the tags
CompatibleAnyTags(test, tags) == test.status = "Pending"

\* mutant: a test without requirements is kept away from tagged workers
CompatibleNonEmpty(test, tags) ==
    /\ test.status = "Pending"
    /\ test.worker_requirements # {}
    /\ test.worker_requirements \subseteq tags

\* a test the scan collects for a worker with these tags
Compatible(test, tags) ==
    test.status = "Pending" /\ test.worker_requirements \subseteq tags

\* mutant: the lookahead test is marked Running too
AfterAppendMarksAll(tests, i, n) == [tests EXCEPT ![i].status = "Running"]

\* the tests after the i-th was appended as the n-th of worker_testable
AfterAppend(tests, i, n) ==
    IF n = 1 THEN [tests EXCEPT ![i].status = "Running"] ELSE tests

\* the loop over the session's tests, from the i-th on
RECURSIVE Scan(_, _, _, _)
Scan(tests, tags, i, worker_testable) ==
    IF i > Len(tests)
    THEN [tests |-> tests, worker_testable |-> worker_testable]
    ELSE IF Compatible(tests[i], tags)
    THEN LET appended == Append(worker_testable, tests[i].nodeid)
             marked == AfterAppend(tests, i, Len(appended))
         IN IF Len(appended) >= 2
            THEN [tests |-> marked, worker_testable |-> appended]
            ELSE Scan(marked, tags, i + 1, appended)
    ELSE Scan(tests, tags, i + 1, worker_testable)

ActionOf(worker_testable) == IF Len(worker_testable) > 0 THEN "Run" ELSE "Stop"
TestNow(worker_testable) == IF Len(worker_testable) > 0 THEN worker_testable[1] ELSE None
\* mutant: test_next reads the last entry of an over-long list as index 0
TestNextFirst(worker_testable) ==
    IF Len(worker_testable) > 1 THEN worker_testable[1] ELSE None
TestNext(worker_testable) == IF Len(worker_testable) > 1 THEN worker_testable[2] ELSE None

WorkerActionResponse(action, test_now, test_next) ==
    [action |-> action, test_now |-> test_now, test_next |-> test_next]

\* the history fields of the tests a poll returned to worker_id
Returned(tests, worker_id, test_now, test_next) ==
    [i \in 1..Len(tests) |->
        [tests[i] EXCEPT
           !.assigned = IF tests[i].nodeid = test_now THEN @ \cup {worker_id} ELSE @,
           !.hinted = IF tests[i].nodeid = test_next THEN @ \cup {worker_id} ELSE @]]

\* GET /worker/{worker_id}/session/{session_id}/tests
fetch_session_tests(worker_id, session_id) ==
    /\ Handled
    /\ IF session_id \notin SessionIds
       THEN /\ resp' = NotFound("fetch_session_tests", session_id, worker_id,
                                "Session not found")
            /\ UNCHANGED <<sessions, background>>
       ELSE LET session == GetSession(session_id)
                polled == [session EXCEPT !.state = PollState(session.state)]
            IN IF PollStops(session.state)
               THEN /\ resp' = Response("fetch_session_tests", 200, session_id, worker_id,
                                        WorkerActionResponse("Stop", None, None))
                    /\ sessions' = SetSession(session_id, polled)
                    /\ UNCHANGED background
               ELSE IF GetWorkerResult(worker_id) # "ok"
               THEN /\ resp' = Response("fetch_session_tests",
                                        WorkerErrorCode(GetWorkerResult(worker_id)),
                                        session_id, worker_id, GetWorkerResult(worker_id))
                    /\ sessions' = SetSession(session_id, polled)
                    /\ UNCHANGED background
               ELSE LET scan == Scan(polled.tests, WorkerTags(worker_id), 1, <<>>)
                        test_now == TestNow(scan.worker_testable)
                        test_next == TestNext(scan.worker_testable)
                    IN /\ resp' = Response("fetch_session_tests", 200, session_id,
                                           worker_id,
                                           WorkerActionResponse(
                                               ActionOf(scan.worker_testable),
                                               test_now, test_next))
                       /\ sessions' = SetSession(session_id,
                              [polled EXCEPT !.tests =
                                  Returned(scan.tests, worker_id, test_now, test_next)])
                       /\ background' = [background EXCEPT ![worker_id] = @ + 1]
    /\ UNCHANGED <<workers, files, now>>

\* a queued _worker_seen(worker_id) runs
RunBackground(worker_id) ==
    /\ background[worker_id] > 0
    /\ background' = [background EXCEPT ![worker_id] = @ - 1]
    /\ workers' = WorkerSeen(workers, worker_id)
    /\ UNCHANGED <<sessions, files, now, resp, budget>>

\* POST /worker/{worker_id}/update
update_worker(worker_id, pet_name, tags) ==
    /\ Handled
    /\ IF ~WorkerExists(worker_id)
       THEN /\ resp' = NotFound("update_worker", None, worker_id, "Worker not found")
            /\ UNCHANGED workers
       ELSE /\ workers' = [workers EXCEPT ![worker_id].pet_name = pet_name,
                                          ![worker_id].tags = Some(tags)]
            /\ resp' = Response("update_worker", 200, None, worker_id,
                                "Worker updated successfully")
    /\ UNCHANGED <<sessions, files, now, background>>

\* POST /worker/{worker_id}/heartbeat
worker_heartbeat(worker_id) ==
    /\ Handled
    /\ workers' = WorkerSeen(workers, worker_id)
    /\ resp' = Response("worker_heartbeat", 200, None, worker_id, "Heartbeat received")
    /\ UNCHANGED <<sessions, files, now, background>>

WorkerInfoResponse(worker_id) ==
    [worker_id |-> worker_id,
     pet_name |-> workers[worker_id].pet_name,
     tags |-> WorkerTags(worker_id)]

\* GET /worker/{worker_id}/info
get_worker_info(worker_id) ==
    /\ Handled
    /\ resp' =
         IF GetWorkerResult(worker_id) # "ok"
         THEN Response("get_worker_info", WorkerErrorCode(GetWorkerResult(worker_id)),
                       None, worker_id, GetWorkerResult(worker_id))
         ELSE Response("get_worker_info", 200, None, worker_id,
                       WorkerInfoResponse(worker_id))
    /\ UNCHANGED <<sessions, workers, files, now, background>>

\* GET /worker/list
list_workers ==
    /\ Handled
    /\ resp' = Response("list_workers", 200, None, None,
                        {[worker_id |-> w,
                          pet_name |-> workers[w].pet_name,
                          tags |-> WorkerTags(w)] : w \in ActiveWorkers})
    /\ UNCHANGED <<sessions, workers, files, now, background>>

----------------------------------------------------------------------------
(* Artifacts *)

\* base64.b64decode: the bytes, or None where it raises (incorrect padding)
b64decode(content) ==
    CASE content = "ejE=" -> "z1"
      [] content = "ejI=" -> "z2"
      [] OTHER -> None

\* POST /worker/session/{session_id}/artifacts; the response is shown with
\* the content of the request
upload_artifact(session_id, worker_id, content) ==
    /\ Handled
    /\ IF session_id \notin SessionIds
       THEN /\ resp' = NotFound("upload_artifact", session_id, worker_id,
                                <<content, "Session not found">>)
            /\ UNCHANGED sessions
       ELSE IF b64decode(content) = None
       THEN /\ resp' = Response("upload_artifact", 400, session_id, worker_id,
                                <<content, "Invalid base64 content">>)
            /\ UNCHANGED sessions
       ELSE /\ sessions' = SetSession(session_id,
                   [GetSession(session_id) EXCEPT
                      !.artifacts = PutArtifact(@, worker_id, b64decode(content))])
            /\ resp' = Response("upload_artifact", 200, session_id, worker_id,
                                <<content, "Artifact uploaded successfully">>)
    /\ UNCHANGED <<workers, files, now, background>>

\* GET /session/{session_id}/artifacts
list_artifacts(session_id) ==
    /\ Handled
    /\ resp' =
         IF session_id \notin SessionIds
         THEN NotFound("list_artifacts", session_id, None, "Session not found")
         ELSE LET artifacts == GetSession(session_id).artifacts
              IN Response("list_artifacts", 200, session_id, None,
                          [i \in 1..Len(artifacts) |-> artifacts[i].worker_id])
    /\ UNCHANGED <<sessions, workers, files, now, background>>

\* GET /session/{session_id}/artifacts/{artifact_id}
download_artifact(session_id, artifact_id) ==
    /\ Handled
    /\ resp' =
         IF session_id \notin SessionIds
         THEN NotFound("download_artifact", session_id, artifact_id, "Session not found")
         ELSE LET artifacts == GetSession(session_id).artifacts
              IN IF artifact_id \notin ArtifactKeys(artifacts)
                 THEN NotFound("download_artifact", session_id, artifact_id,
                               "Artifact not found")
                 ELSE Response("download_artifact", 200, session_id, artifact_id,
                               artifacts[ArtifactIndex(artifacts, artifact_id)].content)
    /\ UNCHANGED <<sessions, workers, files, now, background>>

----------------------------------------------------------------------------
(* The specification *)

\* a minute passes
Tick ==
    /\ now < MaxTime
    /\ now' = now + 1
    /\ UNCHANGED <<sessions, workers, files, background, resp, budget>>

Row(pet_name, tags, last_seen) ==
    [pet_name |-> pet_name, tags |-> tags, last_seen |-> last_seen]

\* the workers table when the server starts (the table outlives the server):
\* both workers were configured through update, which names them; w1 was
\* just seen, w2 was last seen WORKER_TIMEOUT ago
InitialTables ==
    { [w \in WorkerIds |->
          IF w = "w1" THEN Row("happy-otter", Some({"cellsim"}), 0)
          ELSE Row("sleepy-panda", Some({"cellsim"}), 0 - WORKER_TIMEOUT)] }

\* no pytest process runs beside the server
NoPlugin == [pc |-> "not started"]

Init ==
    /\ sessions = InitialSessions
    /\ workers \in InitialTables
    /\ files = {}
    /\ now = 0
    /\ background = [w \in WorkerIds |-> 0]
    /\ resp = Response("start", 200, None, None, None)
    /\ scheduler = NoPlugin
    /\ gen = NoPlugin
    /\ budget = MaxSteps
    /\ worker_plugin = NoPlugin
    /\ client_plugin = NoPlugin

RequestSessionIds == SessionIds \cup {UNKNOWN_SESSION}

Next ==
    \/ \E session_id \in UUIDs : start_session(session_id) /\ UNCHANGED plugins
    \/ \E session_id \in RequestSessionIds : stop_session(session_id) /\ UNCHANGED plugins
    \/ \E session_id \in RequestSessionIds : submit_session_env(session_id) /\ UNCHANGED plugins
    \/ \E session_id \in RequestSessionIds : fetch_worker_session_env(session_id) /\ UNCHANGED plugins
    \/ \E session_id \in RequestSessionIds, batch \in Batches :
          submit_tests(session_id, batch) /\ UNCHANGED plugins
    \/ \E session_id \in RequestSessionIds : fetch_tests(session_id) /\ UNCHANGED plugins
    \/ \E session_id \in RequestSessionIds, nodeid \in NodeIds,
          phase \in TestPhase, report \in Reports :
          submit_test_report(session_id, nodeid, phase, report) /\ UNCHANGED plugins
    \/ \E session_id \in RequestSessionIds, phase \in TestPhase, nodeid \in NodeIds :
          query_test_report(session_id, phase, nodeid) /\ UNCHANGED plugins
    \/ \E worker_id \in WorkerIds : get_worker_session(worker_id) /\ UNCHANGED plugins
    \/ \E worker_id \in WorkerIds, session_id \in RequestSessionIds :
          fetch_session_tests(worker_id, session_id) /\ UNCHANGED plugins
    \/ \E worker_id \in WorkerIds : RunBackground(worker_id) /\ UNCHANGED plugins
    \/ \E worker_id \in WorkerIds, pet_name \in PetNames, tags \in SUBSET Tags :
          update_worker(worker_id, pet_name, tags) /\ UNCHANGED plugins
    \/ \E worker_id \in WorkerIds : worker_heartbeat(worker_id) /\ UNCHANGED plugins
    \/ \E worker_id \in WorkerIds : get_worker_info(worker_id) /\ UNCHANGED plugins
    \/ list_workers /\ UNCHANGED plugins
    \/ \E session_id \in RequestSessionIds, worker_id \in WorkerIds,
          content \in Contents :
          upload_artifact(session_id, worker_id, content) /\ UNCHANGED plugins
    \/ \E session_id \in RequestSessionIds : list_artifacts(session_id) /\ UNCHANGED plugins
    \/ \E session_id \in RequestSessionIds, artifact_id \in WorkerIds :
          download_artifact(session_id, artifact_id) /\ UNCHANGED plugins
    \/ Tick /\ UNCHANGED plugins

Spec == Init /\ [][Next]_vars

\* the same server, followed for one request more
InitDeep ==
    /\ sessions = InitialSessions
    /\ workers \in InitialTables
    /\ files = {}
    /\ now = 0
    /\ background = [w \in WorkerIds |-> 0]
    /\ resp = Response("start", 200, None, None, None)
    /\ scheduler = NoPlugin
    /\ gen = NoPlugin
    /\ budget = MaxSteps + 1
    /\ worker_plugin = NoPlugin
    /\ client_plugin = NoPlugin

SpecDeep == InitDeep /\ [][Next]_vars

\* the same server beside another workers table: w1 is configured and was
\* last seen WORKER_TIMEOUT ago (one more minute and no worker is active),
\* w2 has never contacted the server
RegistryTables ==
    { [w \in {"w1"} |-> Row("happy-otter", Some({"cellsim"}), 0 - WORKER_TIMEOUT)] }

InitRegistry ==
    /\ sessions = InitialSessions
    /\ workers \in RegistryTables
    /\ files = {}
    /\ now = 0
    /\ background = [w \in WorkerIds |-> 0]
    /\ resp = Response("start", 200, None, None, None)
    /\ scheduler = NoPlugin
    /\ gen = NoPlugin
    /\ budget = MaxSteps
    /\ worker_plugin = NoPlugin
    /\ client_plugin = NoPlugin

SpecRegistry == InitRegistry /\ [][Next]_vars

----------------------------------------------------------------------------
(* The Worker plugin (hil/dist_plugin.py): one worker process.  Its          *)
(* _run_tests coroutine and the report tasks it creates share one event      *)
(* loop: a task runs only while the coroutine is suspended in an await that  *)
(* waits for the network (fetch_work) or for the tasks (gather).  Every      *)
(* request of the process is handled by the server above.                   *)

\* the outcomes of pytest_runtest_protocol for one item: setup, call and
\* teardown each emit a report; a failed setup skips the call
Outcomes == {"passed", "setup failed"}

EmittedReport(nodeid, when, report) ==
    [nodeid |-> nodeid, when |-> when, report |-> report]

\* process_test: the reports the protocol hands to pytest_runtest_logreport
ProtocolReports(nodeid, outcome) ==
    IF outcome = "passed"
    THEN << EmittedReport(nodeid, "Setup", "r1"),
            EmittedReport(nodeid, "Call", "r1"),
            EmittedReport(nodeid, "Teardown", "r1") >>
    ELSE << EmittedReport(nodeid, "Setup", "r2"),
            EmittedReport(nodeid, "Teardown", "r1") >>

\* pytest_runtest_logreport: one new task per report, appended to
\* _reporting_tasks
pytest_runtest_logreport(reporting_tasks, report) ==
    Append(reporting_tasks,
           [nodeid |-> report.nodeid, phase |-> report.when,
            report |-> report.report, state |-> "pending"])

RECURSIVE LogReports(_, _, _)
LogReports(reporting_tasks, reports, i) ==
    IF i > Len(reports) THEN reporting_tasks
    ELSE LogReports(pytest_runtest_logreport(reporting_tasks, reports[i]),
                    reports, i + 1)

\* asyncio.run leaves through an exception: the tasks not yet done are cancelled
CancelPending(reporting_tasks) ==
    [k \in 1..Len(reporting_tasks) |->
        IF reporting_tasks[k].state = "pending"
        THEN [reporting_tasks[k] EXCEPT !.state = "cancelled"]
        ELSE reporting_tasks[k]]

\* mutant: the coroutine ends without waiting for the tasks
GatherReturnsAtOnce(reporting_tasks) == TRUE

\* asyncio.gather(*self._reporting_tasks) returns: every task is done
GatherReturns(reporting_tasks) ==
    \A k \in 1..Len(reporting_tasks) : reporting_tasks[k].state = "done"

\* asyncio.gather raises: some task has raised
GatherRaises(reporting_tasks) ==
    \E k \in 1..Len(reporting_tasks) : reporting_tasks[k].state = "failed"

\* Worker.__init__; emitted (the reports the engine emitted) and
\* pending_at_exit (the tasks not yet done when the loop was left) are
\* history fields
NewWorkerPlugin(worker_id, session_id) ==
    [pc |-> "signal_ready",
     worker_id |-> worker_id,
     session_id |-> session_id,
     reporting_tasks |-> <<>>,
     result |-> None,
     emitted |-> <<>>,
     pending_at_exit |-> 0]

Pending(reporting_tasks) ==
    {k \in 1..Len(reporting_tasks) : reporting_tasks[k].state = "pending"}

\* await self.api_client.signal_ready(): a placeholder, no request
WorkerSignalReady ==
    /\ worker_plugin.pc = "signal_ready"
    /\ worker_plugin' = [worker_plugin EXCEPT !.pc = "fetch_work"]
    /\ UNCHANGED <<sessions, workers, files, now, background, resp, budget,
                   client_plugin, scheduler, gen>>

\* one turn of the loop: fetch_work and, on Run, process_test, which runs the
\* item to its end before the coroutine reaches its next await
WorkerFetchWork(outcome) ==
    /\ worker_plugin.pc = "fetch_work"
    /\ fetch_session_tests(worker_plugin.worker_id, worker_plugin.session_id)
    /\ worker_plugin' =
         IF resp'.code # 200
         THEN \* raise_for_status: HTTPStatusError leaves _run_tests
              [worker_plugin EXCEPT
                 !.pc = "sessionfinish", !.result = "raised",
                 !.reporting_tasks = CancelPending(@)]
         ELSE IF resp'.body.action = "Stop"
         THEN \* EndOfSession: break
              [worker_plugin EXCEPT
                 !.pc = "signal_done",
                 !.pending_at_exit = Cardinality(Pending(worker_plugin.reporting_tasks))]
         ELSE IF resp'.body.test_now \notin NodeIds
         THEN \* self._items_by_nodeid[nodeid_now]: KeyError
              [worker_plugin EXCEPT
                 !.pc = "sessionfinish", !.result = "raised",
                 !.reporting_tasks = CancelPending(@)]
         ELSE LET reports == ProtocolReports(resp'.body.test_now, outcome) IN
              [worker_plugin EXCEPT
                 !.reporting_tasks = LogReports(@, reports, 1),
                 !.emitted = @ \o reports]
    /\ UNCHANGED <<client_plugin, scheduler, gen>>

\* a report task runs report_result: its POST is handled by the server
WorkerReportResult(k) ==
    /\ worker_plugin.pc \in {"fetch_work", "gather"}
    /\ k \in Pending(worker_plugin.reporting_tasks)
    /\ LET task == worker_plugin.reporting_tasks[k] IN
       submit_test_report(worker_plugin.session_id, task.nodeid, task.phase,
                          task.report)
    /\ worker_plugin' =
         [worker_plugin EXCEPT
            !.reporting_tasks[k].state = IF resp'.code = 200 THEN "done" ELSE "failed"]
    /\ UNCHANGED <<client_plugin, scheduler, gen>>

\* await self.api_client.signal_done(): a placeholder, no request and no
\* suspension
WorkerSignalDone ==
    /\ worker_plugin.pc = "signal_done"
    /\ worker_plugin' = [worker_plugin EXCEPT !.pc = "gather"]
    /\ UNCHANGED <<sessions, workers, files, now, background, resp, budget,
                   client_plugin, scheduler, gen>>

\* await asyncio.gather(*self._reporting_tasks), then return True
WorkerGather ==
    /\ worker_plugin.pc = "gather"
    /\ IF GatherRaises(worker_plugin.reporting_tasks)
       THEN worker_plugin' =
              [worker_plugin EXCEPT
                 !.pc = "sessionfinish", !.result = "raised",
                 !.reporting_tasks = CancelPending(@)]
       ELSE /\ GatherReturns(worker_plugin.reporting_tasks)
            /\ worker_plugin' =
                 [worker_plugin EXCEPT !.pc = "sessionfinish", !.result = "returned"]
    /\ UNCHANGED <<sessions, workers, files, now, background, resp, budget,
                   client_plugin, scheduler, gen>>

\* pytest_sessionfinish: upload_artifacts posts the zipped ARTIFACTS_DIR
\* (b64encode yields valid base64), or returns at once without the directory
WorkerSessionFinish(artifacts_dir_exists) ==
    /\ worker_plugin.pc = "sessionfinish"
    /\ IF artifacts_dir_exists
       THEN upload_artifact(worker_plugin.session_id, worker_plugin.worker_id, "ejE=")
       ELSE UNCHANGED <<sessions, workers, files, now, background, resp, budget>>
    /\ worker_plugin' = [worker_plugin EXCEPT !.pc = "finished"]
    /\ UNCHANGED <<client_plugin, scheduler, gen>>

\* the worker process beside the server: the session may be stopped and the
\* server runs its background tasks
MaxWorkerRequests == 10

InitWorker ==
    /\ sessions = InitialSessions
    /\ workers \in RegistryTables
    /\ files = {}
    /\ now = 0
    /\ background = [w \in WorkerIds |-> 0]
    /\ resp = Response("start", 200, None, None, None)
    /\ scheduler = NoPlugin
    /\ gen = NoPlugin
    /\ budget = MaxWorkerRequests
    /\ worker_plugin \in {NewWorkerPlugin(worker_id, session_id) :
                             worker_id \in WorkerIds,
                             session_id \in {TEST_SESSION, UNKNOWN_SESSION}}
    /\ client_plugin = NoPlugin

NextWorker ==
    \/ WorkerSignalReady
    \/ \E outcome \in Outcomes : WorkerFetchWork(outcome)
    \/ \E k \in 1..Len(worker_plugin.reporting_tasks) : WorkerReportResult(k)
    \/ WorkerSignalDone
    \/ WorkerGather
    \/ \E artifacts_dir_exists \in BOOLEAN : WorkerSessionFinish(artifacts_dir_exists)
    \/ stop_session(TEST_SESSION) /\ UNCHANGED plugins
    \/ \E worker_id \in WorkerIds : RunBackground(worker_id) /\ UNCHANGED plugins

SpecWorker == InitWorker /\ [][NextWorker]_vars

----------------------------------------------------------------------------
(* The Client plugin (hil/dist_plugin.py): one client process.  It creates   *)
(* a session, submits the collected tests and polls the statuses until       *)
(* TestResults.all_done; between two of its requests the workers' requests   *)
(* reach the server.                                                         *)

KeyError == "KeyError"

\* TestResults.all_done
all_done(reports, nodeids) ==
    /\ Cardinality(DOMAIN reports) = Cardinality(nodeids)
    /\ \A nodeid \in DOMAIN reports : "Teardown" \in reports[nodeid]

\* TestResults.add raises ValueError: an unknown nodeid, or a phase already set
AddRaises(reports, nodeids, nodeid, phase) ==
    \/ nodeid \notin nodeids
    \/ nodeid \in DOMAIN reports /\ phase \in reports[nodeid]

\* TestResults.add: self.reports[nodeid] = self.reports.get(nodeid, {}) | {phase: report}
TestResults_add(reports, nodeid, phase) ==
    [n \in DOMAIN reports \cup {nodeid} |->
        IF n = nodeid
        THEN (IF n \in DOMAIN reports THEN reports[n] ELSE {}) \cup {phase}
        ELSE reports[n]]

InSeq(x, seq) == \E k \in 1..Len(seq) : seq[k] = x

\* the two loops of fetch_results over new_statuses, whose keys come in the
\* order of the server's tests: the (nodeid, phase) to fetch, up to the first
\* self.statuses[nodeid] that raises KeyError
RECURSIVE NewPhases(_, _, _, _)
NewPhases(order, new_statuses, statuses, i) ==
    IF i > Len(order) THEN <<>>
    ELSE LET nodeid == order[i]
             phases == new_statuses[nodeid]
             unseen(phase) == ~InSeq(phase, statuses[nodeid])
         IN IF phases = <<>>
            THEN NewPhases(order, new_statuses, statuses, i + 1)
            ELSE IF nodeid \notin DOMAIN statuses
            THEN << [nodeid |-> nodeid, phase |-> KeyError] >>
            ELSE [k \in 1..Len(SelectSeq(phases, unseen)) |->
                     [nodeid |-> nodeid, phase |-> SelectSeq(phases, unseen)[k]]]
                 \o NewPhases(order, new_statuses, statuses, i + 1)

\* Client.__init__ and the first lines of pytest_runtestloop; marked are the
\* collected tests with a runs_on marker; new_reports is the list
\* fetch_results builds; looped and forwarded are history fields: whether the
\* polling loop was entered, and the reports handed to pytest_runtest_logreport
NewClientPlugin(nodeids, marked) ==
    [pc |-> "get_client_session",
     session_id |-> None,
     nodeids |-> nodeids,
     marked |-> marked,
     statuses |-> <<>>,
     reports |-> <<>>,
     new_statuses |-> <<>>,
     todo |-> <<>>,
     new_reports |-> <<>>,
     downloads |-> {},
     result |-> None,
     exception |-> None,
     looped |-> FALSE,
     forwarded |-> <<>>]

\* an exception leaves pytest_runtestloop
ClientRaised(plugin, exception) ==
    [plugin EXCEPT !.pc = "sessionfinish", !.result = "raised",
                   !.exception = exception]

\* ClientApi.submit_tests on a response that raise_for_status rejects
SubmitTestsError(code) ==
    IF code = 422 THEN "ApiUsageError" ELSE "HTTPStatusError"

\* the end of one turn of the loop: self.statuses = new_statuses, the new
\* reports are forwarded, then break on all_done, else sleep
EndOfTurn(plugin) ==
    [plugin EXCEPT
       !.statuses = plugin.new_statuses,
       !.forwarded = @ \o plugin.new_reports,
       !.pc = IF all_done(plugin.reports, plugin.nodeids)
              THEN "sessionfinish" ELSE "sleep",
       !.result = IF all_done(plugin.reports, plugin.nodeids)
                  THEN "returned" ELSE @]

\* await self.api_client.get_client_session()
ClientGetSession(session_id) ==
    /\ client_plugin.pc = "get_client_session"
    /\ start_session(session_id)
    /\ client_plugin' = [client_plugin EXCEPT
                            !.session_id = session_id, !.pc = "submit_tests"]
    /\ UNCHANGED <<worker_plugin, scheduler, gen>>

\* the batches Client.submit_tests can build: one TestSpec per collected
\* nodeid, in the order the set is iterated; an unmarked test has the
\* worker_requirements []
ClientBatches(nodeids) ==
    {batch \in Batches :
        /\ Len(batch) = Cardinality(nodeids)
        /\ {batch[k].nodeid : k \in 1..Len(batch)} = nodeids
        /\ \A k \in 1..Len(batch) : batch[k].worker_requirements = {}}

\* await self.submit_tests(session): a RunsOn marker is no JSON value, and the
\* request with a marked test raises TypeError before it is sent; a response
\* other than 2xx raises too (ApiUsageError for 422, else HTTPStatusError)
ClientSubmitTests(batch) ==
    /\ client_plugin.pc = "submit_tests"
    /\ batch \in ClientBatches(client_plugin.nodeids)
    /\ IF client_plugin.marked # {}
       THEN /\ client_plugin' = ClientRaised(client_plugin, "TypeError")
            /\ UNCHANGED <<sessions, workers, files, now, background, resp, budget>>
       ELSE /\ submit_tests(client_plugin.session_id, batch)
            /\ client_plugin' =
                 IF resp'.code = 200
                 THEN [client_plugin EXCEPT !.pc = "fetch_statuses", !.looped = TRUE]
                 ELSE ClientRaised(client_plugin, SubmitTestsError(resp'.code))
    /\ UNCHANGED <<worker_plugin, scheduler, gen>>

\* fetch_results, up to its first fetch_report
ClientFetchStatuses ==
    /\ client_plugin.pc = "fetch_statuses"
    /\ fetch_tests(client_plugin.session_id)
    /\ LET tests == GetSession(client_plugin.session_id).tests
           order == [k \in 1..Len(tests) |-> tests[k].nodeid]
           todo == NewPhases(order, resp'.body, client_plugin.statuses, 1)
           fetched == [client_plugin EXCEPT
                          !.new_statuses = resp'.body, !.todo = todo,
                          !.new_reports = <<>>]
       IN client_plugin' =
            IF resp'.code # 200 THEN ClientRaised(client_plugin, "HTTPStatusError")
            ELSE IF todo = <<>> THEN EndOfTurn(fetched)
            ELSE IF todo[1].phase = KeyError THEN ClientRaised(fetched, KeyError)
            ELSE [fetched EXCEPT !.pc = "fetch_report"]
    /\ UNCHANGED <<worker_plugin, scheduler, gen>>

\* fetch_results, one fetch_report and self.results.add; the report fetched
\* for a phase is taken to be a report of that phase
ClientFetchReport ==
    /\ client_plugin.pc = "fetch_report"
    /\ LET item == Head(client_plugin.todo)
           rest == Tail(client_plugin.todo)
       IN /\ query_test_report(client_plugin.session_id, item.phase, item.nodeid)
          /\ client_plugin' =
               IF resp'.code # 200
               THEN ClientRaised(client_plugin, "HTTPStatusError")
               ELSE IF AddRaises(client_plugin.reports, client_plugin.nodeids,
                                 item.nodeid, item.phase)
               THEN ClientRaised(client_plugin, "ValueError")
               ELSE LET added ==
                          [client_plugin EXCEPT
                             !.reports = TestResults_add(@, item.nodeid, item.phase),
                             !.new_reports = Append(@, <<item.nodeid, item.phase>>),
                             !.todo = rest]
                    IN IF rest = <<>> THEN EndOfTurn(added)
                       ELSE IF rest[1].phase = KeyError THEN ClientRaised(added, KeyError)
                       ELSE added
    /\ UNCHANGED <<worker_plugin, scheduler, gen>>

\* await asyncio.sleep(1)
ClientSleep ==
    /\ client_plugin.pc = "sleep"
    /\ client_plugin' = [client_plugin EXCEPT !.pc = "fetch_statuses"]
    /\ UNCHANGED <<sessions, workers, files, now, background, resp, budget,
                   worker_plugin, scheduler, gen>>

\* pytest_sessionfinish: download_artifacts lists the artifacts
ClientListArtifacts ==
    /\ client_plugin.pc = "sessionfinish"
    /\ list_artifacts(client_plugin.session_id)
    /\ LET artifact_ids == IF resp'.code = 200
                           THEN {resp'.body[k] : k \in 1..Len(resp'.body)} ELSE {}
       IN client_plugin' =
            [client_plugin EXCEPT
               !.downloads = artifact_ids,
               !.pc = IF artifact_ids = {} THEN "finished" ELSE "download"]
    /\ UNCHANGED <<worker_plugin, scheduler, gen>>

\* one of the gathered download_artifact calls
ClientDownloadArtifact(artifact_id) ==
    /\ client_plugin.pc = "download"
    /\ artifact_id \in client_plugin.downloads
    /\ download_artifact(client_plugin.session_id, artifact_id)
    /\ client_plugin' =
         [client_plugin EXCEPT
            !.downloads = @ \ {artifact_id},
            !.pc = IF client_plugin.downloads = {artifact_id} \/ resp'.code # 200
                   THEN "finished" ELSE @]
    /\ UNCHANGED <<worker_plugin, scheduler, gen>>

\* a worker's report_result for the client's session reaches the server
WorkerReports(nodeid, phase) ==
    /\ client_plugin.session_id \in SessionIds
    /\ submit_test_report(client_plugin.session_id, nodeid, phase, "r1")
    /\ UNCHANGED plugins

\* a worker's upload_artifacts for the client's session reaches the server
WorkerUploads(worker_id) ==
    /\ client_plugin.session_id \in SessionIds
    /\ upload_artifact(client_plugin.session_id, worker_id, "ejE=")
    /\ UNCHANGED plugins

\* the client process beside the server, with the requests of the workers
MaxClientRequests == 9

Collections == {{}, {TEST_NOTHING}, {TEST_NOTHING, TEST_FAIL}}

InitClient ==
    /\ sessions = InitialSessions
    /\ workers \in RegistryTables
    /\ files = {}
    /\ now = 0
    /\ background = [w \in WorkerIds |-> 0]
    /\ resp = Response("start", 200, None, None, None)
    /\ scheduler = NoPlugin
    /\ gen = NoPlugin
    /\ budget = MaxClientRequests
    /\ worker_plugin = NoPlugin
    /\ client_plugin \in {NewClientPlugin(nodeids, marked) :
                             nodeids \in Collections,
                             marked \in {{}, {TEST_NOTHING}}}
    /\ client_plugin.marked \subseteq client_plugin.nodeids

NextClient ==
    \/ \E session_id \in UUIDs : ClientGetSession(session_id)
    \/ \E batch \in Batches : ClientSubmitTests(batch)
    \/ ClientFetchStatuses
    \/ ClientFetchReport
    \/ ClientSleep
    \/ ClientListArtifacts
    \/ \E artifact_id \in WorkerIds : ClientDownloadArtifact(artifact_id)
    \/ \E nodeid \in NodeIds, phase \in TestPhase : WorkerReports(nodeid, phase)
    \/ \E worker_id \in {"w1"} : WorkerUploads(worker_id)
    \/ Tick /\ UNCHANGED plugins

SpecClient == InitClient /\ [][NextClient]_vars

----------------------------------------------------------------------------
(* A session from end to end: the client process and one worker process    *)
(* beside the server.  The worker is started for the client's session once *)
(* the client's tests are submitted; each process runs on as long as it    *)
(* has a step to take.                                                     *)

\* the tests the client of the session collects
SessionCollections == {{}, {TEST_NOTHING}}

InitSession ==
    /\ sessions = InitialSessions
    /\ workers \in RegistryTables
    /\ files = {}
    /\ now = 0
    /\ background = [w \in WorkerIds |-> 0]
    /\ resp = Response("start", 200, None, None, None)
    /\ scheduler = NoPlugin
    /\ gen = NoPlugin
    /\ budget = Unbounded
    /\ worker_plugin \in {NewWorkerPlugin(worker_id, session_id) :
                             worker_id \in WorkerIds, session_id \in UUIDs}
    /\ client_plugin \in {NewClientPlugin(nodeids, {}) :
                             nodeids \in SessionCollections}

ClientStep ==
    \/ \E session_id \in UUIDs : ClientGetSession(session_id)
    \/ \E batch \in Batches : ClientSubmitTests(batch)
    \/ ClientFetchStatuses
    \/ ClientFetchReport
    \/ ClientSleep
    \/ ClientListArtifacts
    \/ \E artifact_id \in WorkerIds : ClientDownloadArtifact(artifact_id)

WorkerStep ==
    \/ client_plugin.looped /\ WorkerSignalReady
    \/ \E outcome \in Outcomes : WorkerFetchWork(outcome)
    \/ \E k \in 1..Len(worker_plugin.reporting_tasks) : WorkerReportResult(k)
    \/ WorkerSignalDone
    \/ WorkerGather
    \/ \E artifacts_dir_exists \in BOOLEAN : WorkerSessionFinish(artifacts_dir_exists)

ServerStep ==
    \E worker_id \in WorkerIds : RunBackground(worker_id) /\ UNCHANGED plugins

NextSession ==
    \/ ClientStep
    \/ WorkerStep
    \/ ServerStep
    \/ Tick /\ UNCHANGED plugins

SpecSession == InitSession /\ [][NextSession]_vars

\* each of the three processes is an event loop that runs what is ready
FairSession ==
    /\ SpecSession
    /\ WF_vars(ClientStep)
    /\ WF_vars(WorkerStep)
    /\ WF_vars(ServerStep)

----------------------------------------------------------------------------
(* The in-process scheduler: HeterogenousLoadScheduling of                 *)
(* software/hil/scheduling.py.  xdist's DSession calls it from one thread: *)
(* add_node when a worker is ready, add_node_collection when the worker    *)
(* has collected, schedule once the collection is complete, and            *)
(* mark_test_complete for every test a worker has run.  A worker is named  *)
(* by its gateway id.  Every worker collects the same tests.               *)

MaxTests == 3
MaxNodes == 2

Gateways == {"local", "gw0", "gw1"}
AllTests == <<"test_a", "test_b", "test_c", "test_d">>
\* the runs_on markers a test carries: none, one without a hostname, one for
\* a worker of the run, one for a host that is not part of the run
RunsOn(hostname) == [hostname |-> hostname]
RunsOnLists == { <<>>, <<RunsOn(None)>>, <<RunsOn("gw0")>>,
                 <<RunsOn("rig9")>>, <<RunsOn("rig9"), RunsOn("gw1")>> }
\* --maxschedchunk: not given, or 1
MaxSchedChunks == {Null, Some(1)}
\* the duration of a test in milliseconds, and the 0.1 s above which a node
\* with two queued tests counts as busy
Durations == {0, 100}
BUSY_DURATION == 100

Min(a, b) == IF a <= b THEN a ELSE b
Max(a, b) == IF a >= b THEN a ELSE b
\* dict[key] = value
Put(dict, key, value) ==
    [k \in DOMAIN dict \cup {key} |-> IF k = key THEN value ELSE dict[k]]
\* seq[:num]
Take(seq, num) == SubSeq(seq, 1, Min(num, Len(seq)))
Elements(seq) == {seq[k] : k \in 1..Len(seq)}

\* RunsOn.check
RunsOn_check(runs_on, node) ==
    runs_on.hostname = None \/ runs_on.hostname = node

\* what a call of the scheduler raised
NoError == [raised |-> None, test_name |-> None, runs_on_list |-> <<>>]
Raised(exception) == [NoError EXCEPT !.raised = exception]

\* HeterogenousLoadScheduling.__init__ over LoadScheduling.__init__; numnodes
\* is the number of --tx specs; test_names are the keys of
\* runs_on_by_test_name in the order of the dict
NewScheduler(numnodes, maxschedchunk, test_names, runs_on_by_test_name) ==
    [pc |-> "scheduling",
     numnodes |-> numnodes,
     maxschedchunk |-> maxschedchunk,
     test_names |-> test_names,
     runs_on_by_test_name |-> runs_on_by_test_name,
     nodes |-> <<>>,
     node2pending |-> <<>>,
     node2collection |-> <<>>,
     collection |-> Null,
     pending |-> <<>>,
     test_names_by_worker |-> <<>>,
     test_indices_by_worker |-> <<>>,
     shutting_down |-> {},
     sent |-> <<>>,
     op |-> "__init__",
     first |-> FALSE,
     error |-> NoError]

collection_is_completed(s) == Cardinality(DOMAIN s.node2collection) >= s.numnodes

\* a call op of the scheduler begins
Call(s, op) == [s EXCEPT !.op = op, !.first = FALSE, !.error = NoError]

\* add_node; LoadScheduling.add_node asserts that the node is new
add_node(s, node) ==
    [Call(s, "add_node") EXCEPT
       !.nodes = Append(@, node),
       !.node2pending = Put(@, node, <<>>),
       !.sent = Put(@, node, <<>>),
       !.test_names_by_worker = Put(@, node, <<>>)]

\* the tests of a collection a node is compatible with
TestNamesIgnoringNode(s, node, collection) == collection
TestNames(s, node, collection) ==
    IF node = "local"
    THEN SelectSeq(collection, LAMBDA test_name :
                      s.runs_on_by_test_name[test_name] = <<>>)
    ELSE SelectSeq(collection, LAMBDA test_name :
                      \E k \in 1..Len(s.runs_on_by_test_name[test_name]) :
                         RunsOn_check(s.runs_on_by_test_name[test_name][k], node))

\* collection.index(test_name), counted from 0
IndexOf(collection, test_name) ==
    (CHOOSE k \in 1..Len(collection) :
        /\ collection[k] = test_name
        /\ \A j \in 1..(k - 1) : collection[j] # test_name) - 1

\* add_node_collection; LoadScheduling.add_node_collection asserts that
\* schedule() has set a collection when the collection is already complete
add_node_collection(s, node, collection) ==
    IF collection_is_completed(s) /\ (IsNull(s.collection) \/ Val(s.collection) = <<>>)
    THEN [Call(s, "add_node_collection") EXCEPT !.error = Raised("AssertionError")]
    ELSE LET names == TestNames(s, node, collection)
         IN [Call(s, "add_node_collection") EXCEPT
               !.node2collection = Put(@, node, collection),
               !.test_names_by_worker = Put(@, node, names),
               !.test_indices_by_worker =
                   Put(@, node, [k \in 1..Len(names) |-> IndexOf(collection, names[k])])]

\* _check_collection: the first test, in the order of runs_on_by_test_name,
\* that has markers none of which any node passes, or 0
Unschedulable(s) ==
    {k \in 1..Len(s.test_names) :
        LET runs_on_list == s.runs_on_by_test_name[s.test_names[k]]
        IN /\ runs_on_list # <<>>
           /\ \A r \in 1..Len(runs_on_list) : \A n \in 1..Len(s.nodes) :
                 ~RunsOn_check(runs_on_list[r], s.nodes[n])}
check_collection(s) ==
    IF Unschedulable(s) = {}
    THEN NoError
    ELSE LET k == CHOOSE k \in Unschedulable(s) :
                     \A m \in Unschedulable(s) : k <= m
         IN [raised |-> "ValueError",
             test_name |-> s.test_names[k],
             runs_on_list |-> s.runs_on_by_test_name[s.test_names[k]]]

\* mutant: the node is not told
ShutdownForgotten(s, node) == s

\* node.shutdown()
Shutdown(s, node) == [s EXCEPT !.shutting_down = @ \cup {node}]

\* [i for i in self.pending if i in compatible_indices]
CompatiblePending(s, node) ==
    SelectSeq(s.pending, LAMBDA i : i \in Elements(s.test_indices_by_worker[node]))

\* mutant: the tests sent stay in the pending list
send_tests_keeping_pending(s, node, num) ==
    LET tests_for_node == Take(CompatiblePending(s, node), num)
    IN IF tests_for_node = <<>>
       THEN s
       ELSE [s EXCEPT
               !.node2pending[node] = @ \o tests_for_node,
               !.sent[node] = Append(@, tests_for_node)]

\* _send_tests
send_tests(s, node, num) ==
    LET tests_for_node == Take(CompatiblePending(s, node), num)
    IN IF tests_for_node = <<>>
       THEN s
       ELSE [s EXCEPT
               !.pending = SelectSeq(@, LAMBDA i : i \notin Elements(tests_for_node)),
               !.node2pending[node] = @ \o tests_for_node,
               !.sent[node] = Append(@, tests_for_node)]

\* mutant: the refill does not count what the node has queued
check_schedule_overfilling(s, node, duration) ==
    IF node \in s.shutting_down THEN s
    ELSE IF s.pending = <<>> THEN Shutdown(s, node)
    ELSE IF node \notin DOMAIN s.test_indices_by_worker
    THEN [s EXCEPT !.error = Raised("KeyError")]
    ELSE IF CompatiblePending(s, node) = <<>> THEN Shutdown(s, node)
    ELSE IF Elements(s.nodes) \ DOMAIN s.test_indices_by_worker # {}
    THEN [s EXCEPT !.error = Raised("KeyError")]
    ELSE LET compatible_pending == CompatiblePending(s, node)
             num_nodes == Cardinality({n \in Elements(s.nodes) :
                                         s.test_indices_by_worker[n] # <<>>})
             items_per_node_min == Max(2, (Len(compatible_pending) \div num_nodes) \div 4)
             items_per_node_max == Max(2, (Len(compatible_pending) \div num_nodes) \div 2)
             node_pending == s.node2pending[node]
         IN IF Len(node_pending) >= items_per_node_min THEN s
            ELSE IF duration >= BUSY_DURATION /\ Len(node_pending) >= 2 THEN s
            ELSE LET num_send == items_per_node_max
                     maxschedchunk == Max(2 - Len(node_pending), Val(s.maxschedchunk))
                 IN send_tests(s, node, Min(num_send, maxschedchunk))

\* check_schedule; a node that has not sent its collection has no key in
\* test_indices_by_worker
check_schedule(s, node, duration) ==
    IF node \in s.shutting_down THEN s
    ELSE IF s.pending = <<>> THEN Shutdown(s, node)
    ELSE IF node \notin DOMAIN s.test_indices_by_worker
    THEN [s EXCEPT !.error = Raised("KeyError")]
    ELSE IF CompatiblePending(s, node) = <<>> THEN Shutdown(s, node)
    ELSE IF Elements(s.nodes) \ DOMAIN s.test_indices_by_worker # {}
    THEN [s EXCEPT !.error = Raised("KeyError")]
    ELSE LET compatible_pending == CompatiblePending(s, node)
             num_nodes == Cardinality({n \in Elements(s.nodes) :
                                         s.test_indices_by_worker[n] # <<>>})
             items_per_node_min == Max(2, (Len(compatible_pending) \div num_nodes) \div 4)
             items_per_node_max == Max(2, (Len(compatible_pending) \div num_nodes) \div 2)
             node_pending == s.node2pending[node]
         IN IF Len(node_pending) >= items_per_node_min THEN s
            ELSE IF duration >= BUSY_DURATION /\ Len(node_pending) >= 2 THEN s
            ELSE LET num_send == items_per_node_max - Len(node_pending)
                     maxschedchunk == Max(2 - Len(node_pending), Val(s.maxschedchunk))
                 IN send_tests(s, node, Min(num_send, maxschedchunk))

\* for node in self.nodes: self.check_schedule(node)
RECURSIVE CheckSchedules(_, _)
CheckSchedules(s, n) ==
    IF n > Len(s.nodes) \/ s.error # NoError THEN s
    ELSE CheckSchedules(check_schedule(s, s.nodes[n], 0), n + 1)

\* the loop of the first schedule() over the nodes
RECURSIVE FirstSends(_, _)
FirstSends(s, n) ==
    IF n > Len(s.nodes) THEN s
    ELSE LET node == s.nodes[n]
         IN IF node \notin DOMAIN s.test_indices_by_worker
            THEN [s EXCEPT !.error = Raised("KeyError")]
            ELSE LET compatible_tests == Len(s.test_indices_by_worker[node])
                     items_per_node == compatible_tests \div Len(s.nodes)
                     node_chunksize == Min(Max(items_per_node \div 4, 2),
                                           Val(s.maxschedchunk))
                 IN IF compatible_tests = 0
                    THEN FirstSends(s, n + 1)
                    ELSE FirstSends(send_tests(s, node, node_chunksize), n + 1)

ShutdownAll(s) == [s EXCEPT !.shutting_down = @ \cup Elements(s.nodes)]

\* next(iter(self.node2collection.values())): the collection of the node that
\* sent its collection first; all nodes send the same one
FirstCollection(s) ==
    s.node2collection[CHOOSE node \in DOMAIN s.node2collection : TRUE]

\* schedule
schedule(s) ==
    IF ~IsNull(s.collection)
    THEN CheckSchedules(Call(s, "schedule"), 1)
    ELSE LET c == [Call(s, "schedule") EXCEPT !.first = TRUE]
             collection == FirstCollection(s)
             error == check_collection(s)
         IN IF error # NoError
            THEN [c EXCEPT !.error = error]
            ELSE LET started ==
                        [c EXCEPT !.collection = Some(collection),
                                  !.pending = [k \in 1..Len(collection) |-> k - 1]]
                     chunked ==
                        [started EXCEPT !.maxschedchunk =
                            IF IsNull(@) THEN Some(Len(collection)) ELSE @]
                     after == FirstSends(chunked, 1)
                 IN IF collection = <<>> THEN started
                    ELSE IF after.error # NoError THEN after
                    ELSE IF after.pending = <<>> THEN ShutdownAll(after) ELSE after

\* LoadScheduling.mark_test_complete: the test leaves the node's queue and
\* the node's schedule is checked
mark_test_complete(s, node, item_index, duration) ==
    check_schedule(
        [Call(s, "mark_test_complete") EXCEPT
           !.node2pending[node] = SelectSeq(@, LAMBDA i : i # item_index)],
        node, duration)

\* DSession.worker_workerready
AddNode(node) ==
    /\ scheduler.pc = "scheduling"
    /\ scheduler.error = NoError
    /\ node \notin Elements(scheduler.nodes)
    /\ Len(scheduler.nodes) < MaxNodes
    /\ scheduler' = add_node(scheduler, node)
    /\ UNCHANGED <<sessions, workers, files, now, background, resp, budget,
                   worker_plugin, client_plugin, gen>>

\* DSession.worker_collectionfinish: the node's collection is added
AddNodeCollection(node) ==
    /\ scheduler.pc = "scheduling"
    /\ scheduler.error = NoError
    /\ node \in Elements(scheduler.nodes)
    /\ node \notin DOMAIN scheduler.node2collection
    /\ scheduler' = add_node_collection(scheduler, node,
                                         scheduler.test_names)
    /\ UNCHANGED <<sessions, workers, files, now, background, resp, budget,
                   worker_plugin, client_plugin, gen>>

\* schedule() is called once the collection is complete
Schedule ==
    /\ scheduler.pc = "scheduling"
    /\ scheduler.error = NoError
    /\ collection_is_completed(scheduler)
    /\ scheduler' = schedule(scheduler)
    /\ UNCHANGED <<sessions, workers, files, now, background, resp, budget,
                   worker_plugin, client_plugin, gen>>

\* DSession.worker_runtest_protocol_complete: a node has run the test at the
\* head of its queue
MarkTestComplete(node, duration) ==
    /\ scheduler.pc = "scheduling"
    /\ scheduler.error = NoError
    /\ node \in DOMAIN scheduler.node2pending
    /\ scheduler.node2pending[node] # <<>>
    /\ scheduler' = mark_test_complete(scheduler, node,
                                        Head(scheduler.node2pending[node]), duration)
    /\ UNCHANGED <<sessions, workers, files, now, background, resp, budget,
                   worker_plugin, client_plugin, gen>>

\* the collections of a run and their markers
RunsOnByTestName(collection) ==
    [Elements(collection) -> RunsOnLists]

InitScheduler ==
    /\ sessions = InitialSessions
    /\ workers \in RegistryTables
    /\ files = {}
    /\ now = 0
    /\ background = [w \in WorkerIds |-> 0]
    /\ resp = Response("start", 200, None, None, None)
    /\ budget = 0
    /\ worker_plugin = NoPlugin
    /\ client_plugin = NoPlugin
    /\ gen = NoPlugin
    /\ \E n \in 0..MaxTests, numnodes \in 1..MaxNodes,
          maxschedchunk \in MaxSchedChunks :
          \E runs_on_by_test_name \in RunsOnByTestName(Take(AllTests, n)) :
             scheduler = NewScheduler(numnodes, maxschedchunk, Take(AllTests, n),
                                      runs_on_by_test_name)

NextScheduler ==
    \/ \E node \in Gateways : AddNode(node)
    \/ \E node \in Gateways : AddNodeCollection(node)
    \/ Schedule
    \/ \E node \in Gateways, duration \in Durations : MarkTestComplete(node, duration)

SpecScheduler == InitScheduler /\ [][NextScheduler]_vars

\* every worker goes on running the tests it was sent, and DSession calls
\* schedule() again and again
FairScheduler ==
    /\ SpecScheduler
    /\ WF_vars(Schedule)
    /\ \A node \in Gateways :
          WF_vars(\E duration \in Durations : MarkTestComplete(node, duration))

\* larger collections, every test with the same marker: the whole of
\* LoadTests for the worker gw0 alone, or a part of it with a marker without
\* a hostname, which every worker but `local` passes
MaxLoadTests == 16
LoadTests ==
    << "test_01", "test_02", "test_03", "test_04", "test_05",
       "test_06", "test_07", "test_08", "test_09", "test_10",
       "test_11", "test_12", "test_13", "test_14", "test_15",
       "test_16", "test_17", "test_18" >>
LoadCases ==
    { [n |-> MaxLoadTests, runs_on |-> RunsOn("gw0")],
      [n |-> MaxLoadTests - 6, runs_on |-> RunsOn(None)] }

InitLoad ==
    /\ sessions = InitialSessions
    /\ workers \in RegistryTables
    /\ files = {}
    /\ now = 0
    /\ background = [w \in WorkerIds |-> 0]
    /\ resp = Response("start", 200, None, None, None)
    /\ budget = 0
    /\ worker_plugin = NoPlugin
    /\ client_plugin = NoPlugin
    /\ gen = NoPlugin
    /\ \E case \in LoadCases, numnodes \in 1..MaxNodes,
          maxschedchunk \in MaxSchedChunks :
          scheduler = NewScheduler(numnodes, maxschedchunk,
                                   Take(LoadTests, case.n),
                                   [test_name \in Elements(Take(LoadTests, case.n))
                                       |-> <<case.runs_on>>])

SpecLoad == InitLoad /\ [][NextScheduler]_vars

----------------------------------------------------------------------------
(* any_ready of software/hil/framework.py: an async generator over the     *)
(* __anext__ tasks of its iterators.  The event loop runs the tasks while  *)
(* the generator waits in asyncio.wait and while it is suspended at its    *)
(* yield; between two suspension points the generator runs alone.  The     *)
(* consumer iterates the generator to its end.                             *)

MaxIterators == 2
MaxItems == 2

StopAsyncIteration == "StopAsyncIteration"
ValueError == "ValueError"

\* what the successive __anext__ calls of an iterator do: up to MaxItems
\* items, then StopAsyncIteration or an exception
Item == "item"
RECURSIVE Items(_)
Items(n) == IF n = 0 THEN <<>> ELSE <<Item>> \o Items(n - 1)
Scripts == {Items(n) \o <<last>> :
               n \in 0..MaxItems, last \in {StopAsyncIteration, ValueError}}

\* asyncio.create_task(it.__anext__())
TaskPending == "pending"
TaskCancelled == "cancelled"

\* any_ready(*iterators, timeout): the generator object before its first
\* __anext__; tasks maps an iterator to the state of its task
NewGenerator(iterators, has_timeout) ==
    [pc |-> "created",
     iterators |-> iterators,
     has_timeout |-> has_timeout,
     expired |-> FALSE,
     tasks |-> <<>>,
     done |-> {},
     current |-> 0,
     ready |-> <<>>,
     yields |-> <<>>,
     exception |-> None]

\* for task in tasks: task.cancel(); the cancellation of a finished task
\* does nothing
CancelTasks(tasks) ==
    [it \in DOMAIN tasks |-> IF tasks[it] = TaskPending THEN TaskCancelled ELSE tasks[it]]

\* the finally clause, on return
Return(g) ==
    [g EXCEPT !.pc = "ended", !.done = {}, !.tasks = CancelTasks(@)]

\* tasks.pop(task)
Pop(tasks, it) == [k \in DOMAIN tasks \ {it} |-> tasks[k]]

\* the head of the while loop: return without tasks or past end_time, else
\* await asyncio.wait
LoopHeadReturns(g) == Return(g)
LoopHead(g) ==
    IF DOMAIN g.tasks = {} THEN Return(g)
    ELSE IF g.has_timeout /\ g.expired THEN Return(g)
    ELSE [g EXCEPT !.pc = "waiting"]

\* the first __anext__ of the consumer: a task per iterator
GenStart ==
    /\ gen.pc = "created"
    /\ gen' = LoopHead([gen EXCEPT
                          !.tasks = [it \in 1..Len(gen.iterators) |-> TaskPending]])
    /\ UNCHANGED <<sessions, workers, files, now, background, resp, budget,
                   worker_plugin, client_plugin, scheduler>>

\* the event loop runs the task of an iterator to its end
TaskCompletes(it) ==
    /\ gen.pc \in {"waiting", "yielded"}
    /\ it \in DOMAIN gen.tasks
    /\ gen.tasks[it] = TaskPending
    /\ LET outcome == Head(gen.iterators[it])
       IN gen' = [gen EXCEPT
                    !.tasks[it] = outcome,
                    !.iterators[it] = Tail(@),
                    !.ready = IF outcome = Item THEN Append(@, it) ELSE @]
    /\ UNCHANGED <<sessions, workers, files, now, background, resp, budget,
                   worker_plugin, client_plugin, scheduler>>

\* end_time passes
Expire ==
    /\ gen.pc \in {"waiting", "yielded"}
    /\ gen.has_timeout
    /\ ~gen.expired
    /\ gen' = [gen EXCEPT !.expired = TRUE]
    /\ UNCHANGED <<sessions, workers, files, now, background, resp, budget,
                   worker_plugin, client_plugin, scheduler>>

\* asyncio.wait returns the finished tasks: when one has finished, or with
\* none at the timeout
WaitReturns ==
    /\ gen.pc = "waiting"
    /\ LET done == {it \in DOMAIN gen.tasks : gen.tasks[it] # TaskPending}
       IN /\ done # {} \/ gen.expired
          /\ gen' = IF done = {} THEN LoopHead(gen)
                    ELSE [gen EXCEPT !.pc = "processing", !.done = done]
    /\ UNCHANGED <<sessions, workers, files, now, background, resp, budget,
                   worker_plugin, client_plugin, scheduler>>

\* one turn of "for task in done", the set being iterated in any order
Process(it) ==
    /\ gen.pc = "processing"
    /\ it \in gen.done
    /\ LET popped == [gen EXCEPT !.tasks = Pop(@, it), !.done = @ \ {it}]
       IN gen' =
            IF gen.tasks[it] = StopAsyncIteration
            THEN IF popped.done = {} THEN LoopHead(popped) ELSE popped
            ELSE IF gen.tasks[it] = Item
            THEN [popped EXCEPT !.pc = "yielded", !.current = it,
                                !.yields = Append(@, it)]
            ELSE [popped EXCEPT !.pc = "raised", !.done = {},
                                !.exception = gen.tasks[it],
                                !.tasks = CancelTasks(@)]
    /\ UNCHANGED <<sessions, workers, files, now, background, resp, budget,
                   worker_plugin, client_plugin, scheduler>>

\* the consumer's next __anext__ resumes the generator after its yield: the
\* iterator is scheduled again
Resume ==
    /\ gen.pc = "yielded"
    /\ LET again == [gen EXCEPT !.tasks = Put(@, gen.current, TaskPending),
                                !.current = 0, !.pc = "processing"]
       IN gen' = IF again.done = {} THEN LoopHead(again) ELSE again
    /\ UNCHANGED <<sessions, workers, files, now, background, resp, budget,
                   worker_plugin, client_plugin, scheduler>>

InitGenerator ==
    /\ sessions = InitialSessions
    /\ workers \in RegistryTables
    /\ files = {}
    /\ now = 0
    /\ background = [w \in WorkerIds |-> 0]
    /\ resp = Response("start", 200, None, None, None)
    /\ budget = 0
    /\ worker_plugin = NoPlugin
    /\ client_plugin = NoPlugin
    /\ scheduler = NoPlugin
    /\ \E n \in 0..MaxIterators, has_timeout \in BOOLEAN :
          \E iterators \in [1..n -> Scripts] :
             gen = NewGenerator(iterators, has_timeout)

NextGenerator ==
    \/ GenStart
    \/ \E it \in 1..MaxIterators : TaskCompletes(it)
    \/ Expire
    \/ WaitReturns
    \/ \E it \in 1..MaxIterators : Process(it)
    \/ Resume

SpecGenerator == InitGenerator /\ [][NextGenerator]_vars

----------------------------------------------------------------------------
(* Properties *)

\* the step handles a request op on session_id
IsRequest(op, session_id) ==
    budget' = budget - 1 /\ resp'.op = op /\ resp'.session_id = session_id

\* the step is a poll that got a WorkerActionResponse
IsAnsweredPoll ==
    budget' = budget - 1 /\ resp'.op = "fetch_session_tests" /\ resp'.code = 200

PolledAnswer == resp.op = "fetch_session_tests" /\ resp.code = 200

\* C1: a test is handed out as test_now to at most one worker: it is handed
\* out only while Pending and is not Pending from that step on, so no second
\* worker is given it while it is Running.
AtMostOneAssignment ==
    \A i \in 1..Len(sessions) : \A j \in 1..Len(sessions[i].tests) :
        LET test == sessions[i].tests[j] IN
        /\ Cardinality(test.assigned) <= 1
        /\ test.assigned # {} => test.status # "Pending"
        /\ (PolledAnswer /\ resp.session_id = sessions[i].session_id
              /\ resp.body.test_now = test.nodeid)
           => test.status = "Running" /\ test.assigned = {resp.worker_id}

\* a second compatible worker polled a session whose test is Running on the
\* first worker, and was not given that test
TwoWorkersPolled ==
    /\ PolledAnswer
    /\ resp.session_id \in SessionIds
    /\ \E j \in 1..Len(GetSession(resp.session_id).tests) :
          LET test == GetSession(resp.session_id).tests[j] IN
          /\ test.status = "Running"
          /\ test.assigned # {} /\ resp.worker_id \notin test.assigned
          /\ test.worker_requirements \subseteq WorkerTags(resp.worker_id)
          /\ resp.body.test_now \notin {None, test.nodeid}

\* C2: the tests a poll returns to a worker, as test_now or as test_next,
\* require only tags that the worker has.
ReturnedTestsMatchTags ==
    PolledAnswer =>
        \A nodeid \in {resp.body.test_now, resp.body.test_next} \ {None} :
            GetTest(GetSession(resp.session_id).tests, nodeid).worker_requirements
                \subseteq WorkerTags(resp.worker_id)

\* a poll was given a test although an earlier Pending test of the session
\* requires a tag the worker lacks
SkippedIncompatibleTest ==
    /\ PolledAnswer
    /\ resp.body.test_now # None
    /\ LET tests == GetSession(resp.session_id).tests IN
       /\ GetTest(tests, resp.body.test_now).worker_requirements # {}
       /\ \E j \in 1..Len(tests) :
             /\ j < TestIndex(tests, resp.body.test_now)
             /\ tests[j].status = "Pending"
             /\ ~(tests[j].worker_requirements \subseteq WorkerTags(resp.worker_id))

\* C3: a report submitted for a test and phase that already hold a report is
\* refused and the stored report stays as it was.
DuplicateReportRefused ==
    [][\A i \in 1..Len(sessions) :
          (/\ IsRequest("submit_test_report", sessions[i].session_id)
           /\ resp'.body[1] \in TestKeys(sessions[i].tests)
           /\ GetTest(sessions[i].tests, resp'.body[1]).reports[resp'.body[2]] # None)
          => /\ resp'.code # 200
             /\ GetTest(sessions'[i].tests, resp'.body[1]).reports
                  = GetTest(sessions[i].tests, resp'.body[1]).reports]_vars

TeardownStaysListed ==
    (resp.op = "fetch_tests" /\ resp.code = 200) =>
        \A nodeid \in GetSession(resp.session_id).teardown_accepted :
            /\ nodeid \in DOMAIN resp.body
            /\ \E k \in 1..Len(resp.body[nodeid]) : resp.body[nodeid][k] = "Teardown"

\* C6: stop_session on a session that was stopped before succeeds and leaves
\* the session as it was.
SecondStopIsNoOp ==
    [][\A i \in 1..Len(sessions) :
          (IsRequest("stop_session", sessions[i].session_id) /\ sessions[i].stop_called)
          => resp'.code = 200 /\ sessions'[i] = sessions[i]]_vars

\* C7: a poll on a session on which stop_session was called answers Stop with
\* no test_now and no test_next, and leaves the session's tests as they were.
PollAfterStopAnswersStop ==
    [][\A i \in 1..Len(sessions) :
          (IsRequest("fetch_session_tests", sessions[i].session_id)
             /\ sessions[i].stop_called)
          => /\ resp'.code = 200
             /\ resp'.body = WorkerActionResponse("Stop", None, None)
             /\ sessions'[i].tests = sessions[i].tests]_vars

\* a configured worker polled a stopped session that holds a Pending test it
\* could run, and was told to stop
StoppedSessionPolled ==
    /\ PolledAnswer
    /\ resp.session_id \in SessionIds
    /\ GetSession(resp.session_id).stop_called
    /\ GetWorkerResult(resp.worker_id) = "ok"
    /\ \E j \in 1..Len(GetSession(resp.session_id).tests) :
          Compatible(GetSession(resp.session_id).tests[j], WorkerTags(resp.worker_id))
    /\ resp.body.action = "Stop"

\* C8: a session's state changes only from Setup to Running, in a poll of that
\* session, or to Stopped, in a stop_session of that session; a Stopped
\* session stays Stopped, and a new session starts in Setup.
SessionStateTransitions ==
    [][/\ \A i \in 1..Len(sessions) :
            LET old == sessions[i].state
                new == sessions'[i].state
                session_id == sessions[i].session_id
            IN /\ old = "Stopped" => new = "Stopped"
               /\ old # new =>
                    \/ /\ old = "Setup" /\ new = "Running"
                       /\ IsRequest("fetch_session_tests", session_id)
                    \/ /\ new = "Stopped"
                       /\ IsRequest("stop_session", session_id)
       /\ \A i \in 1..Len(sessions') :
            i > Len(sessions) => sessions'[i].state = "Setup"]_vars

\* a session that a poll set Running and a stop_session then stopped
StartedThenStopped ==
    /\ resp.op = "stop_session" /\ resp.code = 200
    /\ GetSession(resp.session_id).state = "Stopped"
    /\ \E j \in 1..Len(GetSession(resp.session_id).tests) :
          GetSession(resp.session_id).tests[j].assigned # {}

PendingFor(tests, tags) ==
    {k \in 1..Len(tests) :
        tests[k].status = "Pending" /\ tests[k].worker_requirements \subseteq tags}
Least(S) == CHOOSE k \in S : \A m \in S : k <= m
NodeOfLeast(tests, S) == IF S = {} THEN None ELSE tests[Least(S)].nodeid

IsReport(session_id, nodeid, phase) ==
    /\ IsRequest("submit_test_report", session_id)
    /\ resp'.body[1] = nodeid
    /\ resp'.body[2] = phase

\* C11: a first report for any phase of a known test is accepted and stored
\* whatever the other phases hold; a Teardown report leaves the test Finished,
\* a Setup or Call report leaves its status as it was, and no other step
\* makes a test Finished.
FinishedExactlyOnTeardown ==
    [][\A i \in 1..Len(sessions) : \A j \in 1..Len(sessions[i].tests) :
          LET test == sessions[i].tests[j]
              after == sessions'[i].tests[j]
          IN /\ \A phase \in TestPhase :
                  IsReport(sessions[i].session_id, test.nodeid, phase) =>
                     /\ test.reports[phase] = None =>
                           /\ resp'.code = 200
                           /\ after.reports[phase] = resp'.body[3]
                           /\ \A other \in TestPhase \ {phase} :
                                 after.reports[other] = test.reports[other]
                     /\ after.status =
                           IF phase = "Teardown" THEN "Finished" ELSE test.status
             /\ (test.status # "Finished" /\ after.status = "Finished") =>
                  IsReport(sessions[i].session_id, test.nodeid, "Teardown")
      ]_vars

\* a Setup report was accepted for a test that already held its Teardown
\* report and holds no Call report
SetupAcceptedAfterTeardown ==
    /\ resp.op = "submit_test_report" /\ resp.code = 200 /\ resp.body[2] = "Setup"
    /\ \E i \in 1..Len(sessions) : \E j \in 1..Len(sessions[i].tests) :
          LET test == sessions[i].tests[j] IN
          /\ sessions[i].session_id = resp.session_id
          /\ test.nodeid = resp.body[1]
          /\ test.reports["Setup"] = resp.body[3]
          /\ test.reports["Teardown"] # None
          /\ test.reports["Call"] = None
          /\ test.status = "Finished"

\* the tags all active workers have between them
ActiveTags == UNION {WorkerTags(w) : w \in ActiveWorkers}

\* the tags of a batch that no active worker has
Unmet(batch) ==
    UNION {batch[k].worker_requirements \ ActiveTags : k \in 1..Len(batch)}

Satisfiable(batch) ==
    \A k \in 1..Len(batch) : batch[k].worker_requirements \subseteq ActiveTags

TaggedAndUntagged(session, worker_id) ==
    /\ Len(session.tests) = 2
    /\ ActiveWorkers = {worker_id}
    /\ session.tests[1].worker_requirements = WorkerTags(worker_id)
    /\ session.tests[1].worker_requirements # {}
    /\ session.tests[2].worker_requirements = {}

\* the step is an answered poll of worker_id on session_id
IsAnsweredPollOf(worker_id, session_id) ==
    /\ IsAnsweredPoll
    /\ resp'.worker_id = worker_id
    /\ resp'.session_id = session_id

StoppedSessionRejectsWrites ==
    [][\A i \in 1..Len(sessions) :
          (/\ sessions[i].state = "Stopped"
           /\ \/ IsRequest("submit_tests", sessions[i].session_id)
              \/ IsRequest("submit_test_report", sessions[i].session_id))
          => /\ resp'.code # 200
             /\ sessions'[i].tests = sessions[i].tests]_vars

TaggedAndSeen ==
    {w \in DOMAIN workers :
        /\ ~IsNull(workers[w].tags)
        /\ WorkerTags(w) # {}
        /\ now - workers[w].last_seen <= WORKER_TIMEOUT}

\* C19: the active workers are exactly the workers with a non-empty tag set
\* that were seen within WORKER_TIMEOUT of now: list_workers, which returns
\* the active workers, names exactly those.
ActiveWorkersHaveTags ==
    [][IsRequest("list_workers", None)
          => {info.worker_id : info \in resp'.body} = TaggedAndSeen]_vars

\* the step handles a request op of worker_id
IsWorkerRequest(op, worker_id) ==
    budget' = budget - 1 /\ resp'.op = op /\ resp'.worker_id = worker_id

\* C20: get_worker_session of a worker_id without a row creates the row with
\* no tags and a generated pet name; get_worker_session, worker_heartbeat and
\* fetch_session_tests of a worker_id with a row leave its tags and its pet
\* name as they were.
FirstContactCreatesWorker ==
    [][\A w \in WorkerIds :
          /\ (IsWorkerRequest("get_worker_session", w) /\ w \notin DOMAIN workers)
             => /\ w \in DOMAIN workers'
                /\ IsNull(workers'[w].tags)
                /\ workers'[w].pet_name \notin {None, AttributeError}
          /\ (/\ w \in DOMAIN workers
              /\ \/ IsWorkerRequest("get_worker_session", w)
                 \/ IsWorkerRequest("worker_heartbeat", w)
                 \/ IsWorkerRequest("fetch_session_tests", w))
             => /\ w \in DOMAIN workers'
                /\ workers'[w].tags = workers[w].tags
                /\ workers'[w].pet_name = workers[w].pet_name]_vars

\* the report of the k-th task is stored on the server
Stored(k) ==
    LET task == worker_plugin.reporting_tasks[k] IN
    /\ worker_plugin.session_id \in SessionIds
    /\ task.nodeid \in TestKeys(GetSession(worker_plugin.session_id).tests)
    /\ GetTest(GetSession(worker_plugin.session_id).tests, task.nodeid)
          .reports[task.phase] = task.report

TeardownRecorded(nodeid) ==
    /\ nodeid \in DOMAIN client_plugin.reports
    /\ "Teardown" \in client_plugin.reports[nodeid]

\* C18: the client's polling loop, once entered, is left only when the
\* Teardown report of every collected test is recorded, and it is left in
\* the turn that records the last of them: while the loop sleeps or fetches,
\* some collected test lacks its recorded Teardown report.
LoopEndsOnAllTeardowns ==
    /\ (client_plugin.pc \in {"sessionfinish", "download", "finished"}
          /\ client_plugin.looped)
       => \A nodeid \in client_plugin.nodeids : TeardownRecorded(nodeid)
    /\ client_plugin.pc = "sleep"
       => \E nodeid \in client_plugin.nodeids : ~TeardownRecorded(nodeid)

\* the step looks worker_id up through _get_worker: get_worker_info, or a
\* poll of a session that exists and is not Stopped
IsLookup(worker_id) ==
    \/ IsWorkerRequest("get_worker_info", worker_id)
    \/ /\ IsWorkerRequest("fetch_session_tests", worker_id)
       /\ \E i \in 1..Len(sessions) :
             /\ sessions[i].session_id = resp'.session_id
             /\ sessions[i].state # "Stopped"

\* C21: looking up a worker_id without a row fails with WorkerNotFound (404),
\* looking up a worker whose row has no tag (none set, or an empty tag set)
\* fails with WorkerUnconfigured (422), and update_worker of a worker_id
\* without a row fails with 404 and leaves the workers table as it was.
LookupErrors ==
    [][\A w \in WorkerIds :
          /\ (IsLookup(w) /\ w \notin DOMAIN workers) => resp'.code = 404
          /\ (/\ IsLookup(w)
              /\ w \in DOMAIN workers
              /\ (IsNull(workers[w].tags) \/ WorkerTags(w) = {}))
             => resp'.code = 422
          /\ (IsWorkerRequest("update_worker", w) /\ w \notin DOMAIN workers)
             => resp'.code = 404 /\ workers' = workers]_vars

\* the requests that name a session, a test or a worker
SessionOps ==
    {"stop_session", "submit_session_env", "fetch_worker_session_env",
     "submit_tests", "fetch_tests", "submit_test_report", "query_test_report",
     "fetch_session_tests", "upload_artifact", "list_artifacts",
     "download_artifact"}
ReportOps == {"submit_test_report", "query_test_report"}
WorkerOps == {"worker_heartbeat", "get_worker_info", "update_worker",
              "fetch_session_tests"}

\* the step answers not found and changes neither a session nor a worker
RejectedNotFound ==
    resp'.code = 404 /\ sessions' = sessions /\ workers' = workers

\* C22: a request that names a session the server does not hold, a report
\* request that names a test the session does not hold, and a heartbeat, an
\* info request, an update or a poll of a worker_id without a row are
\* answered 404 and change no session and no worker.
UnknownNamesRejected ==
    [][/\ \A op \in SessionOps :
            (IsRequest(op, resp'.session_id) /\ resp'.session_id \notin SessionIds)
            => RejectedNotFound
       /\ \A op \in ReportOps : \A i \in 1..Len(sessions) :
            (/\ IsRequest(op, sessions[i].session_id)
             /\ resp'.body[1] \notin TestKeys(sessions[i].tests))
            => RejectedNotFound
       /\ \A op \in WorkerOps : \A w \in WorkerIds \ DOMAIN workers :
            (/\ IsWorkerRequest(op, w)
             /\ op = "fetch_session_tests" => resp'.session_id \in SessionIds)
            => RejectedNotFound]_vars

\* the bytes a session holds for a worker_id
StoredArtifact(session, worker_id) ==
    session.artifacts[ArtifactIndex(session.artifacts, worker_id)].content

\* C23: an accepted upload stores the decoded bytes of its content under its
\* worker_id and leaves the session's other artifacts alone, no other request
\* changes a session's artifacts, and a session starts without artifacts; a
\* download answers with the bytes stored for the artifact_id, and with 404
\* when nothing is stored for it; the list holds each stored worker_id once
\* and nothing else.
ArtifactsAreLatestUploads ==
    [][/\ \A i \in 1..Len(sessions) :
            LET before == sessions[i].artifacts
                after == sessions'[i].artifacts
            IN IF /\ IsRequest("upload_artifact", sessions[i].session_id)
                  /\ resp'.code = 200
               THEN /\ ArtifactKeys(after) = ArtifactKeys(before) \cup {resp'.worker_id}
                    /\ StoredArtifact(sessions'[i], resp'.worker_id)
                          = b64decode(resp'.body[1])
                    /\ \A w \in ArtifactKeys(before) \ {resp'.worker_id} :
                          StoredArtifact(sessions'[i], w) = StoredArtifact(sessions[i], w)
               ELSE after = before
       /\ \A i \in Len(sessions) + 1..Len(sessions') : sessions'[i].artifacts = <<>>
       /\ \A i \in 1..Len(sessions) :
            IsRequest("download_artifact", sessions[i].session_id)
            => IF resp'.worker_id \in ArtifactKeys(sessions[i].artifacts)
               THEN /\ resp'.code = 200
                    /\ resp'.body = StoredArtifact(sessions[i], resp'.worker_id)
               ELSE resp'.code = 404
       /\ \A i \in 1..Len(sessions) :
            IsRequest("list_artifacts", sessions[i].session_id)
            => /\ resp'.code = 200
               /\ {resp'.body[k] : k \in 1..Len(resp'.body)}
                    = ArtifactKeys(sessions[i].artifacts)
               /\ Len(resp'.body) = Cardinality(ArtifactKeys(sessions[i].artifacts))]_vars

\* a download answered with the bytes of an upload
DownloadedUploadedBytes ==
    /\ resp.op = "download_artifact"
    /\ resp.code = 200
    /\ resp.body \in {"z1", "z2"}
    /\ budget = 0

\* the indices sent to a node so far
SentTo(node) ==
    UNION {Elements(scheduler.sent[node][c]) : c \in 1..Len(scheduler.sent[node])}

\* the markers of the job at an index of the scheduler's collection
MarkersAt(i) == scheduler.runs_on_by_test_name[Val(scheduler.collection)[i + 1]]

\* the job at index i may run on the node: on "local" a job without markers,
\* on another node a job with a marker the node passes
MayRunOn(i, node) ==
    IF node = "local"
    THEN MarkersAt(i) = <<>>
    ELSE \E k \in 1..Len(MarkersAt(i)) :
            MarkersAt(i)[k].hostname \in {None, node}

\* C24: every index the scheduler has sent to a node is the index of a job
\* that may run on that node: a job without runs_on markers on the node
\* "local", a job with a marker the node passes on any other node.
SentOnlyCompatible ==
    scheduler.pc = "scheduling"
    => \A node \in DOMAIN scheduler.sent : \A i \in SentTo(node) : MayRunOn(i, node)

\* the local node and another node have both been sent jobs, and a job is
\* still pending
LocalAndRemoteSent ==
    /\ scheduler.pc = "scheduling"
    /\ "local" \in DOMAIN scheduler.sent
    /\ \E node \in DOMAIN scheduler.sent \ {"local"} :
          SentTo("local") # {} /\ SentTo(node) # {}
    /\ scheduler.pending # <<>>

\* the test may run on the node, said of the test's markers
TestMayRunOn(test_name, node) ==
    LET runs_on_list == scheduler.runs_on_by_test_name[test_name]
    IN IF node = "local"
       THEN runs_on_list = <<>>
       ELSE \E k \in 1..Len(runs_on_list) : runs_on_list[k].hostname \in {None, node}

\* the tests no connected node may run
Stranded ==
    {test_name \in Elements(scheduler.test_names) :
        \A node \in Elements(scheduler.nodes) : ~TestMayRunOn(test_name, node)}

\* C25: a first schedule() that finds a test no connected node may run ends
\* with a ValueError that names such a test and its markers, and has sent
\* nothing to any node; a schedule() after the first one raises no
\* ValueError.
UnschedulableAborts ==
    (scheduler.pc = "scheduling" /\ scheduler.op = "schedule")
    => IF scheduler.first
       THEN Stranded # {}
            => /\ scheduler.error.raised = "ValueError"
               /\ scheduler.error.test_name \in Stranded
               /\ scheduler.error.runs_on_list
                     = scheduler.runs_on_by_test_name[scheduler.error.test_name]
               /\ \A node \in DOMAIN scheduler.sent : scheduler.sent[node] = <<>>
       ELSE scheduler.error.raised # "ValueError"

\* the indices schedule() finds pending: those of the list, or at the first
\* schedule() those of the whole collection
FoundPending ==
    IF IsNull(scheduler.collection)
    THEN {k - 1 : k \in 1..Len(scheduler.test_names)}
    ELSE Elements(scheduler.pending)

\* schedule() finds the node with no pending job it is compatible with
ZeroCompatiblePending(node) ==
    /\ node \in DOMAIN scheduler.test_indices_by_worker
    /\ FoundPending \cap Elements(scheduler.test_indices_by_worker[node]) = {}

\* the step is a schedule() that returned
IsSchedule ==
    /\ scheduler.pc = "scheduling"
    /\ scheduler'.op = "schedule"
    /\ scheduler'.error = NoError

\* C26: every schedule() that returns has told every node to shut down that
\* it found with no pending job the node is compatible with, the first
\* schedule() as well as the later ones.
IdleNodesShutDown ==
    [][IsSchedule
       => \A node \in Elements(scheduler.nodes) :
             ZeroCompatiblePending(node) => node \in scheduler'.shutting_down]_vars

Count(log, it) == Cardinality({k \in 1..Len(log) : log[k] = it})

\* the generator ended by an exception of an iterator: it is the exception
\* at the consumer, and no task is left pending
RaisedAndCancelled ==
    gen.pc = "raised"
    => /\ gen.exception = ValueError
       /\ \A it \in DOMAIN gen.tasks : gen.tasks[it] # TaskPending

\* every __anext__ of every iterator has been run, the last one raising
\* StopAsyncIteration
Exhausted == \A it \in 1..Len(gen.iterators) : gen.iterators[it] = <<>>

TestsIn(store, session_id) ==
    IF \E i \in 1..Len(store) : store[i].session_id = session_id
    THEN store[CHOOSE i \in 1..Len(store) : store[i].session_id = session_id].tests
    ELSE <<>>

\* the nodeids of a session that have a status in a session store
WithStatus(store, session_id, status) ==
    {TestsIn(store, session_id)[k].nodeid :
        k \in {j \in 1..Len(TestsIn(store, session_id)) :
                  TestsIn(store, session_id)[j].status = status}}

\* the nodeids of a session whose Teardown report a session store holds
WithTeardown(store, session_id) ==
    {TestsIn(store, session_id)[k].nodeid :
        k \in {j \in 1..Len(TestsIn(store, session_id)) :
                  TestsIn(store, session_id)[j].reports["Teardown"] # None}}

\* the worker's poll was answered with a test to run
HandedOut == worker_plugin'.emitted # worker_plugin.emitted

\* the test handed out was Pending and is Running
HandedOutOnce ==
    HandedOut
    => /\ resp'.body.test_now \in WithStatus(sessions, resp'.session_id, "Pending")
       /\ resp'.body.test_now \in WithStatus(sessions', resp'.session_id, "Running")

\* a Running test stays Running until its Teardown report is stored
RunningUntilTeardown ==
    \A session_id \in UUIDs :
       \A nodeid \in WithStatus(sessions, session_id, "Running") :
          \/ nodeid \in WithStatus(sessions', session_id, "Running")
          \/ /\ nodeid \in WithStatus(sessions', session_id, "Finished")
             /\ nodeid \in WithTeardown(sessions', session_id)

\* the client has been in its polling loop and has left it
LoopLeft(plugin) ==
    plugin.looped /\ plugin.pc \in {"sessionfinish", "download", "finished"}

SubmittedBeforeFirstPoll ==
    /\ client_plugin.looped
    /\ worker_plugin.pc = "signal_ready"
    /\ worker_plugin.session_id = client_plugin.session_id
    /\ worker_plugin.worker_id \in DOMAIN workers
    /\ ~IsNull(workers[worker_plugin.worker_id].tags)
    /\ \A k \in 1..Len(TestsIn(sessions, client_plugin.session_id)) :
          TestsIn(sessions, client_plugin.session_id)[k].worker_requirements
             \subseteq WorkerTags(worker_plugin.worker_id)

\* every test of the client's session is Finished and the client has left
\* its polling loop
FinishedAndLoopEnded ==
    /\ client_plugin.nodeids
          = WithStatus(sessions, client_plugin.session_id, "Finished")
    /\ LoopLeft(client_plugin)

RECURSIVE Flatten(_)
Flatten(chunks) ==
    IF chunks = <<>> THEN <<>> ELSE Head(chunks) \o Flatten(Tail(chunks))
SentIndices(s, node) == Flatten(s.sent[node])

NoDuplicates(seq) ==
    \A j, k \in 1..Len(seq) : j # k => seq[j] # seq[k]

WorkerRanJob ==
    /\ worker_plugin.session_id = client_plugin.session_id
    /\ worker_plugin.emitted # <<>>

\* the client, its loop left by the break, lists the artifacts
ListsAfterLoop ==
    /\ client_plugin.pc = "sessionfinish"
    /\ client_plugin.result = "returned"
    /\ client_plugin'.pc # "sessionfinish"

StatusesFetched ==
    /\ client_plugin.pc = "fetch_statuses"
    /\ client_plugin'.pc # "fetch_statuses"
    /\ resp'.op = "fetch_tests"
    /\ resp'.code = 200

ReportFetched ==
    /\ client_plugin.pc = "fetch_report"
    /\ client_plugin' # client_plugin

\* no report is forwarded twice: the client fetches a report only for a
\* phase that the previous status snapshot did not show, a report that
\* TestResults.add rejects raises ValueError and is not forwarded, and the
\* reports forwarded are without repetition and all of collected tests
NoReportTwice ==
    /\ ReportFetched =>
          LET item == Head(client_plugin.todo) IN
          /\ ~InSeq(item.phase, client_plugin.statuses[item.nodeid])
          /\ AddRaises(client_plugin.reports, client_plugin.nodeids,
                       item.nodeid, item.phase)
               => /\ client_plugin'.exception = "ValueError"
                  /\ client_plugin'.forwarded = client_plugin.forwarded
    /\ client_plugin'.pc # "not started" =>
          /\ NoDuplicates(client_plugin'.forwarded)
          /\ \A k \in 1..Len(client_plugin'.forwarded) :
                client_plugin'.forwarded[k][1] \in client_plugin'.nodeids

\* no report is left out: when the loop is left, every phase of the last
\* status snapshot the client received has been forwarded
NoReportMissed ==
    LoopLeft(client_plugin') /\ ~LoopLeft(client_plugin) =>
       \A nodeid \in DOMAIN client_plugin'.new_statuses :
          \A phase \in Elements(client_plugin'.new_statuses[nodeid]) :
             <<nodeid, phase>> \in Elements(client_plugin'.forwarded)

ForwardsNoReportTwice == [][NoReportTwice]_vars

\* a poll is answered with WorkerNotFound (404) or WorkerUnconfigured (422)
PollRejected ==
    /\ budget' = budget - 1
    /\ resp'.op = "fetch_session_tests"
    /\ resp'.code \in {WorkerErrorCode("not_found"), WorkerErrorCode("unconfigured")}

\* C35: a poll that fails because the polling worker is unknown or
\* unconfigured leaves every session as it was, its state and the status of
\* its tests included.
RejectedPollChangesNothing == [][PollRejected => sessions' = sessions]_vars

\* scheduling has started without an error, the workers of the run are all
\* connected and have sent their collections, and every test is compatible
\* with one of them
AllSchedulable ==
    /\ scheduler.pc = "scheduling"
    /\ scheduler.error = NoError
    /\ ~IsNull(scheduler.collection)
    /\ Len(scheduler.nodes) = MaxNodes
    /\ DOMAIN scheduler.test_indices_by_worker = Elements(scheduler.nodes)
    /\ \A k \in 1..Len(Val(scheduler.collection)) :
          \E node \in Elements(scheduler.nodes) :
             (k - 1) \in Elements(scheduler.test_indices_by_worker[node])

\* nothing is pending and every connected worker is told to shut down
AllSentAndShutDown ==
    /\ scheduler.pc = "scheduling"
    /\ scheduler.pending = <<>>
    /\ Elements(scheduler.nodes) \subseteq scheduler.shutting_down

\* C36: when every test is compatible with a connected worker, the workers
\* complete what they are sent and schedule() is run again, the pending list
\* becomes empty and every worker is told to shut down.
SchedulingTerminates == AllSchedulable ~> AllSentAndShutDown

\* a collection of several tests, spread over two workers, has been sent to
\* the last test and both workers are shutting down with nothing left to run
SpreadAndShutDown ==
    /\ AllSchedulable
    /\ AllSentAndShutDown
    /\ Len(Val(scheduler.collection)) >= 2
    /\ \A node \in Elements(scheduler.nodes) :
          /\ scheduler.sent[node] # <<>>
          /\ scheduler.node2pending[node] = <<>>

\* the first schedule() has passed _check_collection and set the collection
SchedulingStarted ==
    /\ scheduler.pc = "scheduling"
    /\ ~IsNull(scheduler.collection)
    /\ scheduler.error = NoError

\* C37: once scheduling has started without an unschedulable-test error,
\* whenever every connected worker is told to shut down the pending list is
\* empty.
AllShutDownLeavesNothing ==
    SchedulingStarted /\ Elements(scheduler.nodes) \subseteq scheduler.shutting_down
       => scheduler.pending = <<>>

\* the requests a worker makes under its own worker_id
WorkerRequests ==
    {"get_worker_session", "worker_heartbeat", "fetch_session_tests",
     "get_worker_info", "update_worker"}

\* a request of a worker that has a row is answered 200
WorkerRequestSucceeds ==
    /\ budget' = budget - 1
    /\ resp'.op \in WorkerRequests
    /\ resp'.code = 200
    /\ resp'.worker_id \in DOMAIN workers'

\* C38: every successful request from a worker refreshes the worker's
\* last_seen: the row carries the time of the request, or the refresh is
\* queued to run behind the response.
SuccessRefreshesLastSeen ==
    [][WorkerRequestSucceeds =>
          \/ workers'[resp'.worker_id].last_seen = now
          \/ background'[resp'.worker_id] > background[resp'.worker_id]]_vars

\* the first schedule() has run to its end and has sent the initial chunks
FirstScheduleDone ==
    /\ scheduler.pc = "scheduling"
    /\ IsNull(scheduler.collection)
    /\ scheduler'.op = "schedule"
    /\ scheduler'.first
    /\ scheduler'.error = NoError
    /\ ~IsNull(scheduler'.collection)

\* the number of tests compatible with the worker
CompatibleCount(node) ==
    IF node \in DOMAIN scheduler'.test_indices_by_worker
    THEN Len(scheduler'.test_indices_by_worker[node])
    ELSE 0

\* the configured maximum chunk size: --maxschedchunk, or the length of the
\* collection when it is not given
MaxChunk ==
    IF IsNull(scheduler.maxschedchunk)
    THEN Len(Val(scheduler'.collection))
    ELSE Val(scheduler.maxschedchunk)

\* the workers that come before the worker in self.nodes
NodesBefore(node) ==
    {scheduler.nodes[j] : j \in {k \in 1..Len(scheduler.nodes) :
                                  \E m \in (k + 1)..Len(scheduler.nodes) :
                                     scheduler.nodes[m] = node}}

\* the worker's compatible tests still pending when its turn comes
PendingForFirst(node) ==
    Elements(scheduler'.test_indices_by_worker[node])
       \ UNION {Elements(SentIndices(scheduler', m)) : m \in NodesBefore(node)}

\* C39: the first schedule() sends each worker that has a compatible test
\* max(2, min(compatible / 4, maxchunk)) tests, or all of its compatible
\* pending tests when these are fewer.
InitialChunkIsSent ==
    [][FirstScheduleDone =>
          \A node \in Elements(scheduler.nodes) :
             CompatibleCount(node) >= 1 =>
                Len(SentIndices(scheduler', node))
                   = Min(Max(2, Min(CompatibleCount(node) \div 4, MaxChunk)),
                         Cardinality(PendingForFirst(node)))]_vars

\* schedule() after the first one, or mark_test_complete, has run to its end
RefillStep ==
    /\ SchedulingStarted
    /\ scheduler' # scheduler
    /\ scheduler'.op \in {"schedule", "mark_test_complete"}
    /\ ~scheduler'.first
    /\ scheduler'.error = NoError

\* the worker's queue was refilled in the step
Refilled(node) == scheduler'.sent[node] # scheduler.sent[node]

\* the indices the step added to the worker's queue
NewlySent(node) ==
    Elements(scheduler'.node2pending[node]) \ Elements(scheduler.node2pending[node])

\* the length of the worker's queue when check_schedule looks at it: the
\* completed test has left it
QueueChecked(node) ==
    IF scheduler'.op = "mark_test_complete"
    THEN Len(scheduler.node2pending[node]) - 1
    ELSE Len(scheduler.node2pending[node])

\* the number of pending tests compatible with the worker when
\* check_schedule looks at it: what schedule() has sent to the workers
\* before it is no longer pending
CompatiblePendingCount(node) ==
    Cardinality((Elements(scheduler.pending)
                    \ UNION {NewlySent(m) : m \in NodesBefore(node)})
                \cap Elements(scheduler.test_indices_by_worker[node]))

\* the number of workers that have a compatible test
NumNodes ==
    Cardinality({n \in Elements(scheduler.nodes) :
                    scheduler.test_indices_by_worker[n] # <<>>})

\* C40: after the initial chunk a worker's queue is refilled only when its
\* length is below max(2, compatible_pending / num_nodes / 4), and a refill
\* does not raise its length above max(2, compatible_pending / num_nodes / 2);
\* num_nodes is not zero when a worker is refilled.
RefillStaysInBand ==
    [][RefillStep =>
          \A node \in DOMAIN scheduler.sent :
             Refilled(node) =>
                /\ NumNodes > 0
                /\ QueueChecked(node)
                     < Max(2, (CompatiblePendingCount(node) \div NumNodes) \div 4)
                /\ Len(scheduler'.node2pending[node])
                     <= Max(2, (CompatiblePendingCount(node) \div NumNodes) \div 2)]_vars

\* a worker's queue of two tests, below a floor of three, has been refilled
\* to more than four tests
RefilledAboveFour ==
    /\ SchedulingStarted
    /\ scheduler.op = "mark_test_complete"
    /\ \E node \in DOMAIN scheduler.sent :
          /\ Len(scheduler.sent[node]) >= 2
          /\ Len(scheduler.node2pending[node]) > 4
          /\ Len(scheduler.sent[node][Len(scheduler.sent[node])])
                = Len(scheduler.node2pending[node]) - 2

====
